---- MODULE Spec2Model ----
(***************************************************************************)
(* Collaborative whiteboard: the server's socket handlers                  *)
(* (server/socket/socket.js, setupSocket) over the Room document store     *)
(* (server/models/Room.js) and the in-memory room registry.                *)
(*                                                                         *)
(* An async handler is a sequence of steps: the synchronous prefix up to   *)
(* its first await, then, for every awaited store call, the store          *)
(* executing the call (one atomic single-document operation, or a thrown   *)
(* error) and the continuation that runs when the await resumes.  Handlers *)
(* of any connections, the same connection included, interleave at these   *)
(* points.                                                                 *)
(***************************************************************************)
EXTENDS Integers, Sequences, FiniteSets, TLC

----------------------------------------------------------------------------
(* Bounds of the model *)

\* events the server receives in one behaviour
MaxEvents == 2
\* async handlers that may be between two of their awaits at the same time
MaxInflight == 2

----------------------------------------------------------------------------
(* Values *)

Conns == {"c1", "c2", "c3"}
RoomIds == {"R1", "R2"}
\* let currentRoom = null
NoRoom == "null"
\* ids handed out by uuid(), in order
UuidPool == <<"u1", "u2", "u3", "u4">>

\* an array hole, as MongoDB pads an array that $set extends past its end
Null == [isNull |-> TRUE]
IsNull(s) == "isNull" \in DOMAIN s

Has(obj, k) == k \in DOMAIN obj

\* { ...cur, ...patch }, and $set of each key of the patch
Merge(cur, patch) ==
    [k \in (DOMAIN cur) \cup (DOMAIN patch) |->
        IF k \in DOMAIN patch THEN patch[k] ELSE cur[k]]

\* obj with key k set to v
With(obj, k, v) == Merge(obj, [j \in {k} |-> v])

Point(px, py) == [x |-> px, y |-> py]

\* a structured shape as the toolbar creates it
Rect(id) == [_id |-> id, type |-> "rect", x |-> 0, y |-> 0, w |-> 10, h |-> 10,
             color |-> "black"]

\* a rectangle sent without an id
RectNoId == [type |-> "rect", x |-> 0, y |-> 0, w |-> 10, h |-> 10, color |-> "black"]

\* strokeRef.current at the end of a gesture
Stroke(id, pts) == [_id |-> id, type |-> "path", color |-> "#111", width |-> 2,
                    points |-> pts]

Pts1 == <<Point(1, 1), Point(2, 2)>>
Pts2 == <<Point(7, 7)>>

\* one element of Room.drawingData
StrokeEntry(stroke) == [type |-> "stroke", data |-> stroke]
ClearEntry == [type |-> "clear"]

\* the path shape draw-end materializes from a stroke
StrokeShape(stroke, sid) ==
    [_id |-> stroke._id,
     type |-> "path",
     points |-> IF Has(stroke, "points") THEN stroke.points ELSE <<>>,
     color |-> IF Has(stroke, "color") THEN stroke.color ELSE "#111",
     width |-> IF Has(stroke, "width") THEN stroke.width ELSE 2,
     author |-> IF Has(stroke, "author") THEN stroke.author ELSE sid,
     x |-> IF Has(stroke, "points") /\ stroke.points # <<>> THEN stroke.points[1].x ELSE 0,
     y |-> IF Has(stroke, "points") /\ stroke.points # <<>> THEN stroke.points[1].y ELSE 0,
     w |-> IF Has(stroke, "w") THEN stroke.w ELSE 200,
     h |-> IF Has(stroke, "h") THEN stroke.h ELSE 200]

----------------------------------------------------------------------------
(* Sequences *)

\* seq without its i-th element (Array.prototype.splice(i, 1))
RemoveAt(seq, i) == [j \in 1..(Len(seq) - 1) |-> IF j < i THEN seq[j] ELSE seq[j + 1]]

----------------------------------------------------------------------------
(* The Room collection: one document per room id *)

NoDoc == [exists |-> FALSE, shapes |-> <<>>, drawingData |-> <<>>]
EmptyDoc == [exists |-> TRUE, shapes |-> <<>>, drawingData |-> <<>>]

\* a pending store call of a handler
OpFindOne(rid) == [kind |-> "findOne", rid |-> rid, upsert |-> FALSE, arg |-> <<>>]
OpCreate(rid) == [kind |-> "create", rid |-> rid, upsert |-> FALSE, arg |-> <<>>]
OpUpdate(rid, kind, arg, upsert) == [kind |-> kind, rid |-> rid, upsert |-> upsert, arg |-> arg]
NoOp == [kind |-> "none", rid |-> "", upsert |-> FALSE, arg |-> <<>>]

\* a $set that writes one key of the patch only, as a write issued key by key would
\* leave the shape when it stops after the first
SetOneField(shapes, i, patch) ==
    LET k == CHOOSE j \in DOMAIN patch : TRUE
    IN IF i <= Len(shapes)
       THEN [shapes EXCEPT ![i] = Merge(@, [j \in {k} |-> patch[k]])]
       ELSE shapes

\* $set of "shapes.<i>.<k>" for every key k of patch (i counted from 1 here)
SetShapeFields(shapes, i, patch) ==
    IF i <= Len(shapes)
    THEN [shapes EXCEPT ![i] = Merge(@, patch)]
    ELSE shapes \o [j \in 1..(i - 1 - Len(shapes)) |-> Null] \o <<patch>>

\* does the $set throw (a field cannot be created inside a null element)
SetShapeFieldsThrows(shapes, i) == i <= Len(shapes) /\ IsNull(shapes[i])

\* $pull: { shapes: { _id: id } }
PullShape(shapes, id) == SelectSeq(shapes, LAMBDA s : ~(Has(s, "_id") /\ s._id = id))

\* the document after the update operator of op
ApplyUpdate(doc, op) ==
    CASE op.kind = "pushShape" -> [doc EXCEPT !.shapes = Append(@, op.arg)]
      [] op.kind = "pushDrawing" -> [doc EXCEPT !.drawingData = Append(@, op.arg)]
      [] op.kind = "setShapeFields" ->
            [doc EXCEPT !.shapes = SetShapeFields(@, op.arg.idx, op.arg.patch)]
      [] op.kind = "pullShape" -> [doc EXCEPT !.shapes = PullShape(@, op.arg)]
      [] op.kind = "setDrawing" -> [doc EXCEPT !.drawingData = op.arg]

\* does the store reject the call
OpThrows(doc, op) ==
    \/ op.kind = "create" /\ doc.exists
    \/ op.kind = "setShapeFields" /\ doc.exists
         /\ SetShapeFieldsThrows(doc.shapes, op.arg.idx)

\* the room's document after the store executed op
DocAfter(doc, op) ==
    CASE op.kind = "findOne" -> doc
      [] op.kind = "create" -> EmptyDoc
      [] OTHER ->
            IF doc.exists THEN ApplyUpdate(doc, op)
            ELSE IF op.upsert THEN ApplyUpdate(EmptyDoc, op)
            ELSE doc

\* what the awaited call resolves to
OpResult(doc, op) ==
    [status |-> "ok",
     doc |-> doc,
     matched |-> IF doc.exists \/ op.upsert THEN 1 ELSE 0]

ErrResult == [status |-> "err", doc |-> NoDoc, matched |-> 0]
Pending == [status |-> "pending", doc |-> NoDoc, matched |-> 0]

----------------------------------------------------------------------------
(* State *)

VARIABLES
    currentRoom,  \* per connection: the handler closure's currentRoom
    members,      \* io.sockets.adapter.rooms: room id -> connections joined to it
    db,           \* the Room collection: room id -> document
    rooms,        \* the in-memory registry: room id -> presence/activity/camera/cursors
    inflight,     \* async handlers between two awaits: handler id -> its frame
    inbox,        \* per connection: the events the server has emitted to it, in order
    nEvents,      \* events received so far; the n-th event's handler has id n
    nUuid,        \* uuid() calls so far
    handled       \* history: per handler id, what its handler did

\* one participant's whiteboard (Whiteboard.jsx with its DrawingCanvas)
VARIABLES
    clientShapes,     \* the shapes state of the whiteboard
    undoRef,          \* undoRef.current: the commands that can be undone, oldest first
    redoRef,          \* redoRef.current: the commands that can be redone
    strokeRef,        \* the canvas's strokeRef.current: the stroke being drawn, or Null
    localStrokesRef,  \* the canvas's localStrokesRef.current: strokes that can be undone
    redoStackRef,     \* the canvas's redoStackRef.current: strokes that can be redone
    emitted,          \* what the whiteboard has sent to the server, in order
    steps,            \* history: what the whiteboard did, step by step
    shapes0,          \* history: the shapes the whiteboard started with
    dragRef           \* dragRef.current: the move or resize gesture under way, or Null

client_vars == <<clientShapes, undoRef, redoRef, strokeRef, localStrokesRef, redoStackRef,
                 emitted, steps, shapes0, dragRef>>

server_vars == <<currentRoom, members, db, rooms, inflight, inbox, nEvents, nUuid, handled>>

vars == <<currentRoom, members, db, rooms, inflight, inbox, nEvents, nUuid, handled,
          clientShapes, undoRef, redoRef, strokeRef, localStrokesRef, redoStackRef,
          emitted, steps, shapes0, dragRef>>

\* a whiteboard that has not been opened
ClientIdle ==
    /\ clientShapes = <<>>
    /\ undoRef = <<>>
    /\ redoRef = <<>>
    /\ strokeRef = Null
    /\ localStrokesRef = <<>>
    /\ redoStackRef = <<>>
    /\ emitted = <<>>
    /\ steps = <<>>
    /\ shapes0 = <<>>
    /\ dragRef = Null

\* the closure of one connection's handlers and the socket.io adapter
conn_vars == <<currentRoom, members>>

EmptyMap == [c \in {} |-> 0]
NoRegistry == [exists |-> FALSE, presence |-> EmptyMap, activity |-> EmptyMap,
               camera |-> EmptyMap, cursors |-> EmptyMap]

\* ensureRoom(roomId): the registry with an entry for rid
EnsureRoom(reg, rid) ==
    IF reg[rid].exists THEN reg ELSE [reg EXCEPT ![rid].exists = TRUE]

\* userCount(io, roomId)
UserCount(rid) == Cardinality(members[rid])

\* one emitted event; hid and from say which handler emitted it and for whom
Msg(ev, data, hid) == [ev |-> ev, data |-> data, hid |-> hid, from |-> inflight[hid].conn]

\* an event emitted by the synchronous prefix of the handler of the event being received
NewMsg(c, ev, data) == [ev |-> ev, data |-> data, hid |-> nEvents + 1, from |-> c]

\* an emit that leaves out the connection whose handler sends the event
EmitToOthers(box, targets, m) ==
    [c \in Conns |-> IF c \in targets \ {m.from} THEN Append(box[c], m) ELSE box[c]]

\* socket.emit / io.to(rid).emit / socket.to(rid).emit: box with m appended for targets
Emit(box, targets, m) ==
    [c \in Conns |-> IF c \in targets THEN Append(box[c], m) ELSE box[c]]

\* io.to(rid): every connection joined to rid
IoTo(rid) == members[rid]

\* a relay through io.to(rid), which reaches the sender as well
SocketToAll(c, rid) == members[rid]

\* socket.to(rid): every connection joined to rid but the sender
SocketTo(c, rid) == members[rid] \ {c}

\* the replay without the filter on the entry type: a clear marker has no data
StrokesUnfiltered(drawingData) ==
    [i \in 1..Len(drawingData) |->
        IF Has(drawingData[i], "data") THEN drawingData[i].data ELSE Null]

\* drawingData.filter(d => d.type === "stroke").map(d => d.data)
StrokesOf(drawingData) ==
    LET st == SelectSeq(drawingData, LAMBDA d : d.type = "stroke")
    IN [i \in 1..Len(st) |-> st[i].data]

----------------------------------------------------------------------------
(* Handler frames *)

Frame(c, ev, rid, data, op) ==
    [conn |-> c, ev |-> ev, rid |-> rid, data |-> data, stage |-> 1, op |-> op,
     res |-> Pending]

\* the record of a newly received event
\* unjoined: the sender's currentRoom was null; prior: the handlers that had returned;
\* writes: store writes of this handler that were applied to a document
Handled(c, ev, rid, data) ==
    [conn |-> c, ev |-> ev, rid |-> rid, data |-> data,
     unjoined |-> currentRoom[c] = NoRoom,
     prior |-> {k \in DOMAIN handled : handled[k].done},
     writes |-> 0, threw |-> FALSE, done |-> FALSE]

NewHid == nEvents + 1

\* an async handler can take a frame
CanStart == Cardinality(DOMAIN inflight) < MaxInflight

\* the event ran to its end without awaiting
Sync(c, ev, rid) ==
    /\ nEvents' = NewHid
    /\ handled' = handled @@ (NewHid :> [Handled(c, ev, rid, <<>>) EXCEPT !.done = TRUE])
    /\ UNCHANGED client_vars

\* the handler suspends at its first await, on store call op
Start(c, ev, rid, data, op) ==
    /\ nEvents' = NewHid
    /\ handled' = handled @@ (NewHid :> Handled(c, ev, rid, data))
    /\ inflight' = inflight @@ (NewHid :> Frame(c, ev, rid, data, op))
    /\ UNCHANGED client_vars

\* the handler returns
Finish(h) ==
    /\ inflight' = [k \in DOMAIN inflight \ {h} |-> inflight[k]]
    /\ handled' = [handled EXCEPT ![h].done = TRUE]
    /\ UNCHANGED client_vars

\* the handler suspends at its next await, on store call op
Await(h, op) ==
    /\ inflight' = [inflight EXCEPT ![h].op = op, ![h].res = Pending, ![h].stage = @ + 1]
    /\ UNCHANGED <<handled, client_vars>>

Resumable(h, ev) ==
    /\ h \in DOMAIN inflight
    /\ inflight[h].ev = ev
    /\ inflight[h].res.status # "pending"

----------------------------------------------------------------------------
(* The store executes a handler's pending call *)

\* the call is applied to the room's document, atomically
StoreExec(h) ==
    /\ h \in DOMAIN inflight
    /\ inflight[h].res.status = "pending"
    /\ LET op == inflight[h].op
           doc == db[op.rid]
       IN /\ ~OpThrows(doc, op)
          /\ db' = [db EXCEPT ![op.rid] = DocAfter(doc, op)]
          /\ inflight' = [inflight EXCEPT ![h].res = OpResult(doc, op)]
          /\ handled' = [handled EXCEPT ![h].writes =
                            IF op.kind # "findOne"
                               /\ (doc.exists \/ op.upsert \/ op.kind = "create")
                            THEN @ + 1 ELSE @]
    /\ UNCHANGED <<conn_vars, rooms, inbox, nEvents, nUuid, client_vars>>

\* the call throws: the store is unavailable, or it rejects the call
StoreFail(h) ==
    /\ h \in DOMAIN inflight
    /\ inflight[h].res.status = "pending"
    /\ inflight' = [inflight EXCEPT ![h].res = ErrResult]
    /\ handled' = [handled EXCEPT ![h].threw = TRUE]
    /\ UNCHANGED <<conn_vars, db, rooms, inbox, nEvents, nUuid, client_vars>>

----------------------------------------------------------------------------
(* join-room *)

\* a join that does not leave the room the connection is in
JoinOnly(c, rid) ==
    [r \in RoomIds |-> IF r = rid THEN members[r] \cup {c} ELSE members[r]]

\* socket.leave(currentRoom) if any, then socket.join(rid)
LeaveThenJoin(c, rid) ==
    [r \in RoomIds |->
        IF r = rid THEN members[r] \cup {c}
        ELSE IF r = currentRoom[c] THEN members[r] \ {c}
        ELSE members[r]]

\* rid = "" is a payload without a roomId
JoinRoom(c, rid) ==
    IF rid = ""
    THEN /\ Sync(c, "join-room", rid)
         /\ UNCHANGED <<conn_vars, db, rooms, inflight, inbox, nUuid>>
    ELSE /\ CanStart
         /\ members' = LeaveThenJoin(c, rid)
         /\ currentRoom' = [currentRoom EXCEPT ![c] = rid]
         /\ rooms' = EnsureRoom(rooms, rid)
         /\ Start(c, "join-room", rid, <<>>, OpFindOne(rid))
         /\ UNCHANGED <<db, inbox, nUuid>>

\* a join that sends its shape snapshot through io.to(room)
JoinEmitsRoom(h, doc) ==
    LET c == inflight[h].conn
        cur == currentRoom[c]
        b1 == Emit(inbox, IoTo(cur), Msg("shapes:init", doc.shapes, h))
        b2 == Emit(b1, {c}, Msg("presence:state", rooms[inflight[h].rid].presence, h))
    IN Emit(b2, IoTo(cur), Msg("user-count", UserCount(cur), h))

\* the snapshots a join sends once it has the room document
JoinEmits(h, doc) ==
    LET c == inflight[h].conn
        cur == currentRoom[c]
        b1 == Emit(inbox, {c}, Msg("shapes:init", doc.shapes, h))
        b2 == Emit(b1, {c}, Msg("presence:state", rooms[inflight[h].rid].presence, h))
        b3 == IF Len(doc.drawingData) > 0
              THEN Emit(b2, {c}, Msg("drawing:replay",
                        [roomId |-> cur, strokes |-> StrokesOf(doc.drawingData)], h))
              ELSE b2
        b4 == Emit(b3, {c}, Msg("room:joined", [roomId |-> cur, users |-> UserCount(cur)], h))
    IN Emit(b4, IoTo(cur), Msg("user-count", UserCount(cur), h))

\* after await Room.findOne, and after await Room.create
JoinRoomResume(h) ==
    /\ Resumable(h, "join-room")
    /\ LET f == inflight[h]
       IN IF f.res.status = "err"
          THEN /\ inbox' = Emit(inbox, {f.conn}, Msg("error", "Failed to join room", h))
               /\ Finish(h)
          ELSE IF f.stage = 1 /\ ~f.res.doc.exists
          THEN /\ Await(h, OpCreate(f.rid))
               /\ UNCHANGED inbox
          ELSE /\ inbox' = JoinEmits(h, IF f.stage = 1 THEN f.res.doc ELSE EmptyDoc)
               /\ Finish(h)
    /\ UNCHANGED <<conn_vars, db, rooms, nEvents, nUuid>>

----------------------------------------------------------------------------
(* presence, activity, camera, cursors: synchronous handlers *)

\* a set that keeps no entry but the sender's
SetEntrySolo(rid, map, c, val) ==
    [EnsureRoom(rooms, rid) EXCEPT ![rid][map] = With(EmptyMap, c, val)]

\* the registry map `map` of room rid with the sender's entry set to val
SetEntry(rid, map, c, val) ==
    [EnsureRoom(rooms, rid) EXCEPT ![rid][map] = With(@, c, val)]

EntryOf(rid, map, c) ==
    IF Has(rooms[rid][map], c) THEN rooms[rid][map][c] ELSE EmptyMap

\* patch || {}: a payload without a patch carries Null
PatchOrEmpty(patch) == IF IsNull(patch) THEN EmptyMap ELSE patch

PresenceUpdate(c, rid, patch) ==
    /\ Sync(c, "presence:update", rid)
    /\ IF rid = ""
       THEN UNCHANGED <<rooms, inbox>>
       ELSE LET cur == EntryOf(rid, "presence", c)
                la == IF Has(PatchOrEmpty(patch), "lastActive") THEN patch.lastActive
                      ELSE IF Has(cur, "lastActive") THEN cur.lastActive
                      ELSE "now"
                merged == With(Merge(cur, PatchOrEmpty(patch)), "lastActive", la)
            IN /\ rooms' = SetEntry(rid, "presence", c, merged)
               /\ inbox' = Emit(inbox, IoTo(rid),
                               NewMsg(c, "presence:update", [id |-> c, patch |-> merged]))
    /\ UNCHANGED <<conn_vars, db, inflight, nUuid>>

ActivityUpdate(c, rid, patch) ==
    /\ Sync(c, "activity:update", rid)
    /\ IF rid = ""
       THEN UNCHANGED <<rooms, inbox>>
       ELSE LET merged == With(Merge(EntryOf(rid, "activity", c), PatchOrEmpty(patch)),
                               "ts", "now")
            IN /\ rooms' = SetEntry(rid, "activity", c, merged)
               /\ inbox' = Emit(inbox, IoTo(rid),
                               NewMsg(c, "activity:update", [id |-> c, patch |-> merged]))
    /\ UNCHANGED <<conn_vars, db, inflight, nUuid>>

CameraUpdate(c, rid, patch) ==
    /\ Sync(c, "camera:update", rid)
    /\ IF rid = "" \/ IsNull(patch)
       THEN UNCHANGED <<rooms, inbox>>
       ELSE LET merged == Merge(EntryOf(rid, "camera", c), patch)
            IN /\ rooms' = SetEntry(rid, "camera", c, merged)
               /\ inbox' = Emit(inbox, IoTo(rid),
                               NewMsg(c, "camera:update", [id |-> c, patch |-> merged]))
    /\ UNCHANGED <<conn_vars, db, inflight, nUuid>>

CursorMove(c, rid, cursor) ==
    /\ Sync(c, "cursor-move", rid)
    /\ IF rid = "" \/ IsNull(cursor)
       THEN UNCHANGED <<rooms, inbox>>
       ELSE /\ rooms' = SetEntry(rid, "cursors", c, With(cursor, "ts", "now"))
            /\ inbox' = Emit(inbox, SocketTo(c, rid),
                            NewMsg(c, "cursor-update", [socketId |-> c, cursor |-> cursor]))
    /\ UNCHANGED <<conn_vars, db, inflight, nUuid>>

----------------------------------------------------------------------------
(* free drawing *)

\* draw-start and draw-move relay the fragment; ev is the event's name
DrawRelay(c, ev, rid, fragment) ==
    /\ ev \in {"draw-start", "draw-move"}
    /\ Sync(c, ev, rid)
    /\ IF rid = ""
       THEN UNCHANGED inbox
       ELSE inbox' = Emit(inbox, SocketTo(c, rid),
                          NewMsg(c, ev, [roomId |-> rid, stroke |-> fragment]))
    /\ UNCHANGED <<conn_vars, db, rooms, inflight, nUuid>>

\* hasStroke = FALSE is a draw-end whose stroke is null
DrawEnd(c, rid, hasStroke, stroke) ==
    IF rid = "" \/ ~hasStroke
    THEN /\ Sync(c, "draw-end", rid)
         /\ IF rid = ""
            THEN UNCHANGED inbox
            ELSE inbox' = Emit(inbox, SocketTo(c, rid),
                               NewMsg(c, "draw-end", [roomId |-> rid]))
         /\ UNCHANGED <<conn_vars, db, rooms, inflight, nUuid>>
    ELSE /\ CanStart
         /\ Has(stroke, "_id") \/ nUuid < Len(UuidPool)
         /\ LET st == IF Has(stroke, "_id") THEN stroke
                      ELSE With(stroke, "_id", UuidPool[nUuid + 1])
            IN /\ inbox' = Emit(inbox, SocketTo(c, rid),
                               NewMsg(c, "draw-end", [roomId |-> rid, stroke |-> stroke]))
               /\ nUuid' = IF Has(stroke, "_id") THEN nUuid ELSE nUuid + 1
               /\ Start(c, "draw-end", rid, st,
                        OpUpdate(rid, "pushDrawing", StrokeEntry(st), TRUE))
         /\ UNCHANGED <<conn_vars, db, rooms>>

\* after the $push to drawingData, and after the $push to shapes
DrawEndResume(h) ==
    /\ Resumable(h, "draw-end")
    /\ LET f == inflight[h]
           strokeShape == StrokeShape(f.data, f.conn)
       IN IF f.res.status = "err"
          THEN /\ inbox' = Emit(inbox, {f.conn}, Msg("error", "Failed to save stroke", h))
               /\ Finish(h)
          ELSE IF f.stage = 1
          THEN /\ Await(h, OpUpdate(f.rid, "pushShape", strokeShape, TRUE))
               /\ UNCHANGED inbox
          ELSE /\ inbox' = Emit(inbox, IoTo(f.rid), Msg("shape:added", strokeShape, h))
               /\ Finish(h)
    /\ UNCHANGED <<conn_vars, db, rooms, nEvents, nUuid>>

----------------------------------------------------------------------------
(* drawing:undo, drawing:redo *)

\* arr without the entries whose id, or whose stroke's _id, is id
UndoById(arr, id) ==
    SelectSeq(arr, LAMBDA d : ~(\/ Has(d, "id") /\ d.id = id
                                \/ Has(d, "data") /\ Has(d.data, "_id") /\ d.data._id = id))

\* is entry `it` a stroke the requester may take for its own
Authored(it, sid) ==
    /\ it.type = "stroke"
    /\ IF Has(it.data, "author") THEN it.data.author = sid ELSE TRUE

\* the index drawing:undo without an id removes, 0 if none
UndoLastIdx(arr, sid) ==
    LET own == {i \in 1..Len(arr) : Authored(arr[i], sid)}
        any == {i \in 1..Len(arr) : arr[i].type = "stroke"}
    IN IF own # {} THEN CHOOSE i \in own : \A j \in own : j <= i
       ELSE IF any # {} THEN CHOOSE i \in any : \A j \in any : j <= i
       ELSE 0

\* the log drawing:undo writes back; id = "" is a request without an id
UndoLog(arr, id, sid) ==
    IF id # "" THEN UndoById(arr, id)
    ELSE IF UndoLastIdx(arr, sid) # 0 THEN RemoveAt(arr, UndoLastIdx(arr, sid))
    ELSE arr

DrawingUndo(c, rid, id) ==
    IF rid = ""
    THEN /\ Sync(c, "drawing:undo", rid)
         /\ UNCHANGED <<conn_vars, db, rooms, inflight, inbox, nUuid>>
    ELSE /\ CanStart
         /\ Start(c, "drawing:undo", rid, id, OpFindOne(rid))
         /\ UNCHANGED <<conn_vars, db, rooms, inbox, nUuid>>

\* after await Room.findOne, and after the $set of drawingData
DrawingUndoResume(h) ==
    /\ Resumable(h, "drawing:undo")
    /\ LET f == inflight[h]
           arr == UndoLog(f.res.doc.drawingData, f.data, f.conn)
       IN IF f.res.status = "err"
          THEN /\ Finish(h)
               /\ UNCHANGED inbox
          ELSE IF f.stage = 1
          THEN IF ~f.res.doc.exists \/ Len(arr) = Len(f.res.doc.drawingData)
               THEN /\ Finish(h)
                    /\ UNCHANGED inbox
               ELSE /\ inflight' = [inflight EXCEPT
                                       ![h].op = OpUpdate(f.rid, "setDrawing", arr, FALSE),
                                       ![h].res = Pending,
                                       ![h].stage = 2,
                                       ![h].data = arr]
                    /\ UNCHANGED <<handled, inbox, client_vars>>
          ELSE /\ inbox' = Emit(inbox, IoTo(f.rid),
                               Msg("drawing:replay",
                                   [roomId |-> f.rid, strokes |-> StrokesOf(f.data)], h))
               /\ Finish(h)
    /\ UNCHANGED <<conn_vars, db, rooms, nEvents, nUuid>>

\* the client re-commits the stroke it redoes; hasStroke = FALSE is a payload without one
DrawingRedo(c, rid, hasStroke, stroke) ==
    IF rid = "" \/ ~hasStroke
    THEN /\ Sync(c, "drawing:redo", rid)
         /\ UNCHANGED <<conn_vars, db, rooms, inflight, inbox, nUuid>>
    ELSE /\ CanStart
         /\ Start(c, "drawing:redo", rid, stroke,
                  OpUpdate(rid, "pushDrawing",
                           IF Has(stroke, "_id")
                           THEN With(StrokeEntry(stroke), "id", stroke._id)
                           ELSE StrokeEntry(stroke),
                           FALSE))
         /\ UNCHANGED <<conn_vars, db, rooms, inbox, nUuid>>

\* after the $push to drawingData, and after await Room.findOne
DrawingRedoResume(h) ==
    /\ Resumable(h, "drawing:redo")
    /\ LET f == inflight[h]
       IN IF f.res.status = "err"
          THEN /\ Finish(h)
               /\ UNCHANGED inbox
          ELSE IF f.stage = 1
          THEN /\ Await(h, OpFindOne(f.rid))
               /\ UNCHANGED inbox
          ELSE /\ inbox' = Emit(inbox, IoTo(f.rid),
                               Msg("drawing:replay",
                                   [roomId |-> f.rid,
                                    strokes |-> StrokesOf(f.res.doc.drawingData)], h))
               /\ Finish(h)
    /\ UNCHANGED <<conn_vars, db, rooms, nEvents, nUuid>>

----------------------------------------------------------------------------
(* clear-canvas *)

ClearCanvas(c, rid) ==
    IF rid = ""
    THEN /\ Sync(c, "clear-canvas", rid)
         /\ UNCHANGED <<conn_vars, db, rooms, inflight, inbox, nUuid>>
    ELSE /\ CanStart
         /\ inbox' = Emit(inbox, IoTo(rid), NewMsg(c, "clear-canvas", <<>>))
         /\ Start(c, "clear-canvas", rid, <<>>,
                  OpUpdate(rid, "pushDrawing", ClearEntry, FALSE))
         /\ UNCHANGED <<conn_vars, db, rooms, nUuid>>

\* after the $push of the clear marker
ClearCanvasResume(h) ==
    /\ Resumable(h, "clear-canvas")
    /\ LET f == inflight[h]
       IN IF f.res.status = "err"
          THEN inbox' = Emit(inbox, {f.conn}, Msg("error", "Failed to clear canvas", h))
          ELSE UNCHANGED inbox
    /\ Finish(h)
    /\ UNCHANGED <<conn_vars, db, rooms, nEvents, nUuid>>

----------------------------------------------------------------------------
(* shapes CRUD *)

\* hasShape = FALSE is a payload without a shape
ShapeAdd(c, rid, hasShape, shape) ==
    IF rid = "" \/ ~hasShape
    THEN /\ Sync(c, "shape:add", rid)
         /\ UNCHANGED <<conn_vars, db, rooms, inflight, inbox, nUuid>>
    ELSE /\ CanStart
         /\ Has(shape, "_id") \/ nUuid < Len(UuidPool)
         /\ LET sh == IF Has(shape, "_id") THEN shape
                      ELSE With(shape, "_id", UuidPool[nUuid + 1])
            IN Start(c, "shape:add", rid, sh, OpUpdate(rid, "pushShape", sh, FALSE))
         /\ nUuid' = IF Has(shape, "_id") THEN nUuid ELSE nUuid + 1
         /\ UNCHANGED <<conn_vars, db, rooms, inbox>>

\* after the $push to shapes
ShapeAddResume(h) ==
    /\ Resumable(h, "shape:add")
    /\ LET f == inflight[h]
       IN IF f.res.status = "err"
          THEN inbox' = Emit(inbox, {f.conn}, Msg("error", "Failed to add shape", h))
          ELSE inbox' = Emit(inbox, IoTo(f.rid), Msg("shape:added", f.data, h))
    /\ Finish(h)
    /\ UNCHANGED <<conn_vars, db, rooms, nEvents, nUuid>>

RECURSIVE FindIndexFrom(_, _, _)
\* shapes.findIndex(s => s._id === id) from index i on, counted from 1:
\* 0 when no element matches (-1 in the code), -1 when reading s._id throws on a null
FindIndexFrom(shapes, id, i) ==
    IF i > Len(shapes) THEN 0
    ELSE IF IsNull(shapes[i]) THEN -1
    ELSE IF Has(shapes[i], "_id") /\ shapes[i]._id = id THEN i
    ELSE FindIndexFrom(shapes, id, i + 1)

FindIndex(shapes, id) == FindIndexFrom(shapes, id, 1)

\* id = "" is a payload without an id, hasPatch = FALSE one without a patch
ShapeUpdate(c, rid, id, hasPatch, patch) ==
    IF rid = "" \/ id = "" \/ ~hasPatch
    THEN /\ Sync(c, "shape:update", rid)
         /\ UNCHANGED <<conn_vars, db, rooms, inflight, inbox, nUuid>>
    ELSE /\ CanStart
         /\ Start(c, "shape:update", rid, [id |-> id, patch |-> patch], OpFindOne(rid))
         /\ UNCHANGED <<conn_vars, db, rooms, inbox, nUuid>>

\* after await Room.findOne, and after the index-addressed $set
ShapeUpdateResume(h) ==
    /\ Resumable(h, "shape:update")
    /\ LET f == inflight[h]
           shapeIndex == FindIndex(f.res.doc.shapes, f.data.id)
       IN IF f.res.status = "err" \/ (f.stage = 1 /\ f.res.doc.exists /\ shapeIndex = -1)
          THEN /\ inbox' = Emit(inbox, {f.conn}, Msg("error", "Failed to update shape", h))
               /\ Finish(h)
          ELSE IF f.stage = 1
          THEN IF ~f.res.doc.exists \/ shapeIndex = 0
               THEN /\ Finish(h)
                    /\ UNCHANGED inbox
               ELSE /\ Await(h, OpUpdate(f.rid, "setShapeFields",
                                         [idx |-> shapeIndex, patch |-> f.data.patch], FALSE))
                    /\ UNCHANGED inbox
          ELSE /\ inbox' = IF f.res.matched > 0
                           THEN Emit(inbox, IoTo(f.rid), Msg("shape:updated", f.data, h))
                           ELSE inbox
               /\ Finish(h)
    /\ UNCHANGED <<conn_vars, db, rooms, nEvents, nUuid>>

ShapeDelete(c, rid, id) ==
    IF rid = "" \/ id = ""
    THEN /\ Sync(c, "shape:delete", rid)
         /\ UNCHANGED <<conn_vars, db, rooms, inflight, inbox, nUuid>>
    ELSE /\ CanStart
         /\ Start(c, "shape:delete", rid, id, OpUpdate(rid, "pullShape", id, FALSE))
         /\ UNCHANGED <<conn_vars, db, rooms, inbox, nUuid>>

\* after the $pull from shapes
ShapeDeleteResume(h) ==
    /\ Resumable(h, "shape:delete")
    /\ LET f == inflight[h]
       IN IF f.res.status = "err"
          THEN inbox' = Emit(inbox, {f.conn}, Msg("error", "Failed to delete shape", h))
          ELSE inbox' = Emit(inbox, IoTo(f.rid), Msg("shape:deleted", [id |-> f.data], h))
    /\ Finish(h)
    /\ UNCHANGED <<conn_vars, db, rooms, nEvents, nUuid>>

----------------------------------------------------------------------------
(* The server with two connections joined to room R1 and one not joined *)

\* a stroke drawn earlier, as draw-end left it in the log and in the shapes
Stroke1 == Stroke("k1", Pts1)

\* room R1 after two shape:add events, and after one of them and a draw-end
DocRects == [exists |-> TRUE, shapes |-> <<Rect("s1"), Rect("s2")>>, drawingData |-> <<>>]
DocDrawn == [exists |-> TRUE,
             shapes |-> <<Rect("s1"), StrokeShape(Stroke1, "c1")>>,
             drawingData |-> <<StrokeEntry(Stroke1)>>]

Init ==
    /\ currentRoom = [c \in Conns |-> IF c = "c3" THEN NoRoom ELSE "R1"]
    /\ members = [r \in RoomIds |-> IF r = "R1" THEN {"c1", "c2"} ELSE {}]
    /\ db \in {[r \in RoomIds |-> IF r = "R1" THEN d ELSE NoDoc] : d \in {DocRects, DocDrawn}}
    /\ rooms = [r \in RoomIds |-> IF r = "R1" THEN [NoRegistry EXCEPT !.exists = TRUE]
                                  ELSE NoRegistry]
    /\ inflight = <<>>
    /\ inbox = [c \in Conns |-> <<>>]
    /\ nEvents = 0
    /\ nUuid = 0
    /\ handled = <<>>
    /\ ClientIdle

\* the connections that send mutations: one joined to R1, one joined to no room
Senders == {"c1", "c3"}

\* the stroke of a new gesture, and the shape the client adds for it after draw-end
Stroke2 == Stroke("k2", Pts2)

Patches == {[x |-> 5], [color |-> "red"]}

Budget == nEvents < MaxEvents

Next ==
    \/ \E c \in Conns, rid \in RoomIds : Budget /\ JoinRoom(c, rid)
    \/ \E c \in Senders : Budget /\ PresenceUpdate(c, "R1", [isIdle |-> TRUE])
    \/ \E c \in Senders : Budget /\ ActivityUpdate(c, "R1", [drawing |-> TRUE])
    \/ \E c \in Senders : Budget /\ CameraUpdate(c, "R1", [scale |-> 2])
    \/ \E c \in Senders : Budget /\ CursorMove(c, "R1", Point(3, 4))
    \/ \E c \in Senders, ev \in {"draw-start", "draw-move"} :
            Budget /\ DrawRelay(c, ev, "R1", [x0 |-> 1, y0 |-> 1])
    \/ \E c \in Senders : Budget /\ DrawEnd(c, "R1", TRUE, Stroke2)
    \/ \E c \in Senders, id \in {"", "k1"} : Budget /\ DrawingUndo(c, "R1", id)
    \/ \E c \in Senders : Budget /\ DrawingRedo(c, "R1", TRUE, Stroke1)
    \/ \E c \in Senders, rid \in RoomIds : Budget /\ ClearCanvas(c, rid)
    \/ \E c \in Senders, rid \in RoomIds, sh \in {Rect("s1"), Stroke2} :
            Budget /\ ShapeAdd(c, rid, TRUE, sh)
    \/ \E c \in Senders, id \in {"s1", "s2"}, p \in Patches :
            Budget /\ ShapeUpdate(c, "R1", id, TRUE, p)
    \/ \E c \in Senders, id \in {"s1"} : Budget /\ ShapeDelete(c, "R1", id)
    \/ \E h \in DOMAIN inflight : StoreExec(h)
    \/ \E h \in DOMAIN inflight : StoreFail(h)
    \/ \E h \in DOMAIN inflight : JoinRoomResume(h)
    \/ \E h \in DOMAIN inflight : DrawEndResume(h)
    \/ \E h \in DOMAIN inflight : DrawingUndoResume(h)
    \/ \E h \in DOMAIN inflight : DrawingRedoResume(h)
    \/ \E h \in DOMAIN inflight : ClearCanvasResume(h)
    \/ \E h \in DOMAIN inflight : ShapeAddResume(h)
    \/ \E h \in DOMAIN inflight : ShapeUpdateResume(h)
    \/ \E h \in DOMAIN inflight : ShapeDeleteResume(h)

Spec == Init /\ [][Next]_vars

----------------------------------------------------------------------------
(* What the history and the inboxes say *)

\* the events handler h has emitted to connection c
EmittedTo(h, c) == {i \in 1..Len(inbox[c]) : inbox[c][i].hid = h}

\* handler h has emitted nothing to anyone
Silent(h) == \A c \in Conns : EmittedTo(h, c) = {}

\* the events that announce a mutation of the room to its participants
BroadcastEvents == {"shape:added", "shape:updated", "shape:deleted", "draw-end",
                    "clear-canvas"}

\* the handlers that mutate the room document
MutationHandlers == {"shape:add", "shape:update", "shape:delete", "draw-end",
                     "clear-canvas", "drawing:undo", "drawing:redo"}

\* the store writes a handler makes before the mutation announced by m is persisted
WritesBehind(m) ==
    IF m.ev = "shape:added" /\ handled[m.hid].ev = "draw-end" THEN 2 ELSE 1

\* shapes of room r that carry id
ShapesWithId(r, id) ==
    {i \in 1..Len(db[r].shapes) : Has(db[r].shapes[i], "_id") /\ db[r].shapes[i]._id = id}

\* stroke-log entries of room r whose stroke carries id
EntriesWithId(r, id) ==
    {i \in 1..Len(db[r].drawingData) :
        /\ db[r].drawingData[i].type = "stroke"
        /\ Has(db[r].drawingData[i].data, "_id")
        /\ db[r].drawingData[i].data._id = id}

----------------------------------------------------------------------------
(* C1 *)

\* C1: every mutation event a connection has received (shape:added, shape:updated,
\* shape:deleted, draw-end with a stroke, clear-canvas) belongs to a handler whose
\* store write had already been applied to the room document when it was emitted.
C1_PersistBeforeBroadcast ==
    \A c \in Conns : \A i \in 1..Len(inbox[c]) :
        LET m == inbox[c][i]
        IN (m.ev \in BroadcastEvents /\ (m.ev = "draw-end" => Has(m.data, "stroke")))
            => handled[m.hid].writes >= WritesBehind(m)

(* C2 *)

\* C2: a mutation handler that returned after a store call threw has emitted an error
\* to its own connection, and has emitted nothing else to anyone.
C2_FailureAckOnly ==
    \A h \in DOMAIN handled :
        (handled[h].ev \in MutationHandlers /\ handled[h].threw /\ handled[h].done)
        => /\ \E i \in EmittedTo(h, handled[h].conn) :
                inbox[handled[h].conn][i].ev = "error"
           /\ \A c \in Conns : \A i \in EmittedTo(h, c) :
                c = handled[h].conn /\ inbox[c][i].ev = "error"

(* C3 *)

\* C3: an event other than join-room received from a connection whose currentRoom is
\* null writes nothing to the store, emits nothing, and leaves no entry of that
\* connection in the registry.
C3_UnjoinedDropped ==
    /\ \A h \in DOMAIN handled :
        (handled[h].unjoined /\ handled[h].ev # "join-room")
        => handled[h].writes = 0 /\ Silent(h)
    /\ \A c \in Conns : \A r \in RoomIds :
        currentRoom[c] = NoRoom
        => \A map \in {"presence", "activity", "camera", "cursors"} : ~Has(rooms[r][map], c)

(* C4 *)

\* the client's gesture end: draw-end, then shape:add, for the same stroke, both returned
GestureEnded(c, r, stroke) ==
    /\ nEvents = 2
    /\ \A h \in {1, 2} : /\ handled[h].conn = c
                         /\ handled[h].rid = r
                         /\ handled[h].done
                         /\ ~handled[h].threw
    /\ handled[1].ev = "draw-end" /\ handled[1].data = stroke
    /\ handled[2].ev = "shape:add" /\ handled[2].data = stroke

\* C4: once the draw-end and the shape:add the client sends at gesture end have been
\* processed, the room holds exactly one shape with the stroke's id, a path with the
\* stroke's points, and exactly one stroke-log entry with that id.
C4_StrokeShapeDuality ==
    \A c \in Conns : \A r \in RoomIds :
        GestureEnded(c, r, Stroke2)
        => /\ Cardinality(ShapesWithId(r, "k2")) = 1
           /\ \A i \in ShapesWithId(r, "k2") :
                db[r].shapes[i].type = "path" /\ db[r].shapes[i].points = Stroke2.points
           /\ Cardinality(EntriesWithId(r, "k2")) = 1

(* C5 *)

\* a clear-canvas of room r whose store write was applied, and that has returned
Cleared(h, r) ==
    /\ handled[h].ev = "clear-canvas"
    /\ handled[h].rid = r
    /\ handled[h].done
    /\ handled[h].writes = 1

\* C5: when clear-canvas is the only mutation of a room and has been processed, the
\* room's stored shapes and stroke log are empty, and a join received after it gets
\* an empty shapes:init and no stroke in a drawing:replay.
C5_ClearCompleteness ==
    \A r \in RoomIds :
        /\ (nEvents = 1 /\ Cleared(1, r))
            => db[r].shapes = <<>> /\ StrokesOf(db[r].drawingData) = <<>>
        /\ (nEvents = 2 /\ Cleared(1, r) /\ handled[2].ev = "join-room"
                /\ handled[2].rid = r /\ 1 \in handled[2].prior)
            => \A i \in EmittedTo(2, handled[2].conn) :
                 LET m == inbox[handled[2].conn][i]
                 IN /\ m.ev = "shapes:init" => m.data = <<>>
                    /\ m.ev = "drawing:replay" => m.data.strokes = <<>>

(* C10 *)

\* C10: no two shapes of a room's stored shape collection have the same id.
C10_UniqueShapeIds ==
    \A r \in RoomIds : \A i, j \in 1..Len(db[r].shapes) :
        (i # j /\ Has(db[r].shapes[i], "_id") /\ Has(db[r].shapes[j], "_id"))
        => db[r].shapes[i]._id # db[r].shapes[j]._id

(* C8 *)

\* shapes with patch merged into the first shape that carries id, all else as it was
PatchedById(shapes, id, patch) ==
    [i \in 1..Len(shapes) |->
        IF i = FindIndex(shapes, id) THEN Merge(shapes[i], patch) ELSE shapes[i]]

\* the store applies the $set of shape:update handler h in this step
PatchWritten(h) ==
    /\ inflight[h].ev = "shape:update"
    /\ inflight[h].op.kind = "setShapeFields"
    /\ inflight[h].res.status = "pending"
    /\ h \in DOMAIN inflight'
    /\ inflight'[h].res.status = "ok"

\* two shape:update events for shape id of room R1, one handled after the other
PatchedInTurn(id) ==
    /\ nEvents = 2
    /\ \A h \in {1, 2} : /\ handled[h].ev = "shape:update"
                         /\ handled[h].rid = "R1"
                         /\ handled[h].data.id = id
                         /\ handled[h].done
                         /\ handled[h].writes = 1
    /\ 1 \in handled[2].prior

\* C8: the write of a shape:update for a shape that is in the store merges the patch
\* into that shape and changes nothing else of the room's shapes; and two patches with
\* disjoint keys, applied one after the other, leave the shape with both patches merged.
C8_PatchFrame ==
    /\ [][\A h \in DOMAIN inflight :
            (PatchWritten(h) /\ ShapesWithId(inflight[h].rid, inflight[h].data.id) # {})
            => db'[inflight[h].rid].shapes =
                  PatchedById(db[inflight[h].rid].shapes, inflight[h].data.id,
                              inflight[h].data.patch)]_vars
    /\ [](PatchedInTurn("s1")
            /\ DOMAIN handled[1].data.patch \cap DOMAIN handled[2].data.patch = {}
          => db["R1"].shapes[1] =
                Merge(Merge(Rect("s1"), handled[1].data.patch), handled[2].data.patch))

----------------------------------------------------------------------------
(* Joins alone: connections join rooms whose documents nothing else changes *)

\* room R1 after draw-end of two strokes with a clear-canvas between them,
\* and after a shape:add followed by a clear-canvas
DocCleared == [exists |-> TRUE,
               shapes |-> <<StrokeShape(Stroke1, "c1"), StrokeShape(Stroke2, "c1")>>,
               drawingData |-> <<StrokeEntry(Stroke1), ClearEntry, StrokeEntry(Stroke2)>>]
DocMarked == [exists |-> TRUE, shapes |-> <<Rect("s1")>>, drawingData |-> <<ClearEntry>>]

InitJoin ==
    /\ currentRoom = [c \in Conns |-> IF c = "c3" THEN NoRoom ELSE "R1"]
    /\ members = [r \in RoomIds |-> IF r = "R1" THEN {"c1", "c2"} ELSE {}]
    /\ db \in {[r \in RoomIds |-> IF r = "R1" THEN d1 ELSE d2] :
                  d1 \in {DocRects, DocDrawn, DocCleared, DocMarked},
                  d2 \in {NoDoc, DocDrawn}}
    /\ rooms = [r \in RoomIds |-> IF r = "R1" THEN [NoRegistry EXCEPT !.exists = TRUE]
                                  ELSE NoRegistry]
    /\ inflight = <<>>
    /\ inbox = [c \in Conns |-> <<>>]
    /\ nEvents = 0
    /\ nUuid = 0
    /\ handled = <<>>
    /\ ClientIdle

NextJoin ==
    \/ \E c \in Conns, rid \in RoomIds \cup {""} : Budget /\ JoinRoom(c, rid)
    \/ \E h \in DOMAIN inflight : StoreExec(h)
    \/ \E h \in DOMAIN inflight : StoreFail(h)
    \/ \E h \in DOMAIN inflight : JoinRoomResume(h)

SpecJoin == InitJoin /\ [][NextJoin]_vars

(* C6 *)

\* the join-room handlers that have sent their snapshots and returned
JoinsDone ==
    {j \in DOMAIN handled : /\ handled[j].ev = "join-room"
                            /\ handled[j].rid # ""
                            /\ handled[j].done
                            /\ ~handled[j].threw}

\* what handler j has sent to its own connection under event name ev, in order
Received(j, ev) ==
    SelectSeq(inbox[handled[j].conn], LAMBDA m : m.hid = j /\ m.ev = ev)

\* the data of the stroke entries of a log, in log order
LogStrokes(log) ==
    LET st == SelectSeq(log, LAMBDA d : d.type = "stroke")
    IN [i \in 1..Len(st) |-> st[i].data]

\* the strokes handler j has replayed to its connection
Replayed(j) ==
    IF Len(Received(j, "drawing:replay")) = 1
    THEN Received(j, "drawing:replay")[1].data.strokes
    ELSE <<>>

\* C6: a connection that has joined a room, with nothing else changing the room's
\* document, has received one shapes:init holding exactly the stored shapes in their
\* order, and at most one drawing:replay, whose strokes are exactly the data of the
\* stroke entries of the stored log, each once and in log order.
C6_JoinSnapshot ==
    \A j \in JoinsDone :
        /\ Len(Received(j, "shapes:init")) = 1
        /\ Received(j, "shapes:init")[1].data = db[handled[j].rid].shapes
        /\ Len(Received(j, "drawing:replay")) <= 1
        /\ Replayed(j) = LogStrokes(db[handled[j].rid].drawingData)

\* a connection has joined a room that holds two shapes and a log of two strokes with a
\* clear marker between them, and has been sent the replay
C6_JoinedDrawnRoom ==
    \E j \in JoinsDone :
        /\ handled[j].conn = "c3"
        /\ Len(db[handled[j].rid].shapes) = 2
        /\ Len(db[handled[j].rid].drawingData) = 3
        /\ Len(Replayed(j)) = 2

----------------------------------------------------------------------------
(* Fan-out: connections join and leave rooms while strokes and patches are sent *)

NextFanout ==
    \/ \E c \in Conns, rid \in RoomIds : Budget /\ JoinRoom(c, rid)
    \/ \E c \in Conns : Budget /\ DrawRelay(c, "draw-move", "R1", [x0 |-> 1, y0 |-> 1])
    \/ \E c \in Conns : Budget /\ ShapeUpdate(c, "R1", "s1", TRUE, [x |-> 5])
    \/ \E h \in DOMAIN inflight : StoreExec(h)
    \/ \E h \in DOMAIN inflight : StoreFail(h)
    \/ \E h \in DOMAIN inflight : JoinRoomResume(h)
    \/ \E h \in DOMAIN inflight : ShapeUpdateResume(h)

SpecFanout == Init /\ [][NextFanout]_vars

(* C7 *)

\* the server receives a draw-move of connection c for room r in this step
DrawMoveStep(c, r) ==
    /\ nEvents' = nEvents + 1
    /\ handled'[nEvents'].ev = "draw-move"
    /\ handled'[nEvents'].conn = c
    /\ handled'[nEvents'].rid = r

\* the handler of a shape:update whose write was applied returns in this step
UpdateSucceeds(h) ==
    /\ inflight[h].ev = "shape:update"
    /\ handled[h].writes = 1
    /\ inflight[h].res.status = "ok"
    /\ h \notin DOMAIN inflight'

\* in this step connection d is sent one event, named ev, by handler h
Got(d, ev, h) ==
    /\ Len(inbox'[d]) = Len(inbox[d]) + 1
    /\ SubSeq(inbox'[d], 1, Len(inbox[d])) = inbox[d]
    /\ inbox'[d][Len(inbox'[d])].ev = ev
    /\ inbox'[d][Len(inbox'[d])].hid = h

\* C7: when the server receives a draw-move of connection c for room R, every connection
\* joined to R other than c is sent that draw-move, and c and the connections outside R are
\* sent nothing; when a shape:update whose write was applied completes, every connection
\* joined to R, the sender included when it is joined to R, is sent shape:updated with the
\* id and the patch, and the connections outside R are sent nothing.
C7_Fanout ==
    [][/\ \A c \in Conns, r \in RoomIds :
            DrawMoveStep(c, r) =>
                \A d \in Conns :
                    IF d \in members[r] /\ d # c
                    THEN Got(d, "draw-move", nEvents')
                    ELSE inbox'[d] = inbox[d]
       /\ \A h \in DOMAIN inflight :
            UpdateSucceeds(h) =>
                \A d \in Conns :
                    IF d \in members[inflight[h].rid]
                    THEN /\ Got(d, "shape:updated", h)
                         /\ inbox'[d][Len(inbox'[d])].data = handled[h].data
                    ELSE inbox'[d] = inbox[d]]_vars

\* c1 has sent a draw-move and a shape:update for R1: c2 holds the draw-move and the
\* shape:updated, c1 holds the shape:updated and no draw-move
C7_RelayedAndEchoed ==
    /\ \E i \in 1..Len(inbox["c2"]) :
            inbox["c2"][i].ev = "draw-move" /\ inbox["c2"][i].from = "c1"
    /\ \E i \in 1..Len(inbox["c2"]) :
            inbox["c2"][i].ev = "shape:updated" /\ inbox["c2"][i].from = "c1"
    /\ \E i \in 1..Len(inbox["c1"]) :
            inbox["c1"][i].ev = "shape:updated" /\ inbox["c1"][i].from = "c1"
    /\ \A i \in 1..Len(inbox["c1"]) : inbox["c1"][i].ev # "draw-move"

----------------------------------------------------------------------------
(* Patches alone: the connections of R1 patch its first shape with overlapping patches *)

WidePatches == {[x |-> 1, w |-> 1], [x |-> 2, w |-> 2], [w |-> 3, color |-> "red"]}

NextPatch ==
    \/ \E c \in {"c1", "c2"}, p \in WidePatches : Budget /\ ShapeUpdate(c, "R1", "s1", TRUE, p)
    \/ \E h \in DOMAIN inflight : StoreExec(h)
    \/ \E h \in DOMAIN inflight : StoreFail(h)
    \/ \E h \in DOMAIN inflight : ShapeUpdateResume(h)

SpecPatch == Init /\ [][NextPatch]_vars

(* C9 *)

\* the shape:update handlers whose $set the store has applied
Writers == {h \in DOMAIN handled : handled[h].ev = "shape:update" /\ handled[h].writes = 1}

\* the orders in which the handlers of W can be lined up
Orders(W) ==
    {f \in [1..Cardinality(W) -> W] :
        \A a, b \in 1..Cardinality(W) : a # b => f[a] # f[b]}

RECURSIVE ApplyInOrder(_, _, _)
\* shape after the whole patches of handlers f[1], ..., f[n], one after the other
ApplyInOrder(shape, f, n) ==
    IF n = 0 THEN shape
    ELSE Merge(ApplyInOrder(shape, f, n - 1), handled[f[n]].data.patch)

\* C9: whatever the interleaving of the handlers of concurrent shape:update events for one
\* shape, the stored shape is in every state the original shape with the whole patches of
\* the applied writes merged one after the other in some order: no patch is ever applied
\* in part, and the other shapes of the room stay as they were.
C9_PatchSerial ==
    /\ Len(db["R1"].shapes) = 2
    /\ db["R1"].shapes[2] \in {Rect("s2"), StrokeShape(Stroke1, "c1")}
    /\ \E f \in Orders(Writers) :
            db["R1"].shapes[1] = ApplyInOrder(Rect("s1"), f, Cardinality(Writers))

\* c1 and c2 have patched shape s1 with different patches that share a key, the second
\* event was received while the first handler had not returned, and both have completed
C9_ConcurrentPatches ==
    /\ nEvents = 2
    /\ Writers = {1, 2}
    /\ handled[1].done /\ handled[2].done
    /\ handled[1].conn # handled[2].conn
    /\ 1 \notin handled[2].prior
    /\ handled[1].data.patch # handled[2].data.patch
    /\ DOMAIN handled[1].data.patch \cap DOMAIN handled[2].data.patch # {}

----------------------------------------------------------------------------
(* Order: the connections of R1 add, patch and delete shapes one event after another *)

NextOrder ==
    \/ \E c \in {"c1", "c2"} : Budget /\ ShapeAdd(c, "R1", TRUE, Rect("s3"))
    \/ \E c \in {"c1", "c2"}, id \in {"s1", "s3"}, p \in Patches :
            Budget /\ ShapeUpdate(c, "R1", id, TRUE, p)
    \/ \E c \in {"c1", "c2"}, id \in {"s1", "s3"} : Budget /\ ShapeDelete(c, "R1", id)
    \/ \E h \in DOMAIN inflight : StoreExec(h)
    \/ \E h \in DOMAIN inflight : StoreFail(h)
    \/ \E h \in DOMAIN inflight : ShapeAddResume(h)
    \/ \E h \in DOMAIN inflight : ShapeUpdateResume(h)
    \/ \E h \in DOMAIN inflight : ShapeDeleteResume(h)

SpecOrder == Init /\ [][NextOrder]_vars

(* C11 *)

\* event h2 follows event h1 of the same connection for the same room, and both handlers
\* have returned without a store call throwing
InTurn(h1, h2) ==
    /\ h1 < h2
    /\ handled[h1].conn = handled[h2].conn
    /\ handled[h1].rid = handled[h2].rid
    /\ handled[h1].done /\ handled[h2].done
    /\ ~handled[h1].threw /\ ~handled[h2].threw

\* C11: the handler of an event sees every store effect of the events its connection sent
\* before it: a shape:update that a connection sends after its shape:add of the same
\* shape finds the shape, writes the patch and broadcasts shape:updated.
C11_RunToCompletion ==
    \A h1, h2 \in DOMAIN handled :
        (/\ InTurn(h1, h2)
         /\ handled[h1].ev = "shape:add"
         /\ handled[h1].writes = 1
         /\ handled[h2].ev = "shape:update"
         /\ handled[h2].data.id = handled[h1].data._id)
        => /\ handled[h2].writes = 1
           /\ \A c \in members[handled[h2].rid] :
                \E i \in EmittedTo(h2, c) : inbox[c][i].ev = "shape:updated"

(* C12 *)

\* C12: in the inbox of every connection, the broadcasts of the mutations of one room
\* stand in the order in which the server received the mutations.
C12_ReceiptOrder ==
    \A c \in Conns : \A i, j \in 1..Len(inbox[c]) :
        (/\ i < j
         /\ inbox[c][i].ev \in BroadcastEvents
         /\ inbox[c][j].ev \in BroadcastEvents
         /\ handled[inbox[c][i].hid].rid = handled[inbox[c][j].hid].rid)
        => inbox[c][i].hid <= inbox[c][j].hid

----------------------------------------------------------------------------
(* The whiteboard client: how it applies the server's events to its shapes *)

\* initShapes: the snapshot without falsy elements, shapes without _id and path shapes
InitShapes(list) ==
    SelectSeq(list, LAMBDA x : ~IsNull(x) /\ Has(x, "_id") /\ x.type # "path")

\* does the list p hold a shape with this id
SomeId(p, id) == \E i \in 1..Len(p) : Has(p[i], "_id") /\ p[i]._id = id

\* an added handler that appends whatever arrives
AddedAppend(p, sh) == Append(p, sh)

\* added: the shape is appended unless its id is there already
Added(p, sh) ==
    IF IsNull(sh) \/ ~Has(sh, "_id") THEN p
    ELSE IF SomeId(p, sh._id) THEN p
    ELSE Append(p, sh)

\* an update handler that puts the patch in the place of the shape
UpdatedReplace(p, data) ==
    IF ~Has(data, "id") THEN p
    ELSE [i \in 1..Len(p) |->
            IF Has(p[i], "_id") /\ p[i]._id = data.id THEN With(data.patch, "_id", data.id)
            ELSE p[i]]

\* updated: the patch is merged into every shape with the id
Updated(p, data) ==
    IF ~Has(data, "id") THEN p
    ELSE [i \in 1..Len(p) |->
            IF Has(p[i], "_id") /\ p[i]._id = data.id THEN Merge(p[i], data.patch)
            ELSE p[i]]

\* deleted: the shapes with the id are dropped
Deleted(p, data) ==
    IF ~Has(data, "id") THEN p
    ELSE SelectSeq(p, LAMBDA x : ~(Has(x, "_id") /\ x._id = data.id))

\* the path shape the client makes of a replayed stroke
ReplayPath(st) ==
    [_id |-> st._id,
     type |-> "path",
     points |-> IF Has(st, "points") THEN st.points ELSE <<>>,
     color |-> IF Has(st, "color") THEN st.color ELSE "#111",
     width |-> IF Has(st, "width") THEN st.width ELSE 2,
     x |-> IF Has(st, "x") THEN st.x
           ELSE IF Has(st, "points") /\ st.points # <<>> THEN st.points[1].x ELSE 0,
     y |-> IF Has(st, "y") THEN st.y
           ELSE IF Has(st, "points") /\ st.points # <<>> THEN st.points[1].y ELSE 0,
     w |-> IF Has(st, "w") THEN st.w ELSE 200,
     h |-> IF Has(st, "h") THEN st.h ELSE 200,
     author |-> IF Has(st, "author") THEN st.author ELSE "null"]

\* drawing:replay: the strokes whose id the list does not hold are appended as paths
Replayed2Paths(p, data) ==
    LET fresh == SelectSeq(data.strokes, LAMBDA st : ~SomeId(p, st._id))
    IN p \o [i \in 1..Len(fresh) |-> ReplayPath(fresh[i])]

\* the client's shapes after the handler of event m
ClientApply(p, m) ==
    CASE m.ev = "shapes:init" -> InitShapes(m.data)
      [] m.ev = "shape:added" -> Added(p, m.data)
      [] m.ev = "shape:updated" -> Updated(p, m.data)
      [] m.ev = "shape:deleted" -> Deleted(p, m.data)
      [] m.ev = "drawing:replay" -> Replayed2Paths(p, m.data)
      [] m.ev = "clear-canvas" -> <<>>
      [] OTHER -> p

RECURSIVE ClientReplay(_, _, _)
\* the client's shapes after the handlers of the first n events of box, from shapes p
ClientReplay(p, box, n) ==
    IF n = 0 THEN p ELSE ClientApply(ClientReplay(p, box, n - 1), box[n])

----------------------------------------------------------------------------
(* Convergence: c1 and c2 patch shape s1 of R1, each client replaying what it is sent *)

NarrowPatches == {[x |-> 1], [x |-> 2], [color |-> "red"]}

InitRects == Init /\ db["R1"] = DocRects

NextConverge ==
    \/ \E c \in {"c1", "c2"}, p \in NarrowPatches :
            Budget /\ ShapeUpdate(c, "R1", "s1", TRUE, p)
    \/ \E h \in DOMAIN inflight : StoreExec(h)
    \/ \E h \in DOMAIN inflight : StoreFail(h)
    \/ \E h \in DOMAIN inflight : ShapeUpdateResume(h)

SpecConverge == InitRects /\ [][NextConverge]_vars

\* the shapes of the client of connection c, which joined R1 when it held DocRects.
\* The sender of a patch also merges it at once (applyLocalUpdate); the echo of the patch
\* merges the same fields again, so once the echoes of all its patches are in, its
\* shapes are the replay's.
LocalShapes(c) == ClientReplay(InitShapes(DocRects.shapes), inbox[c], Len(inbox[c]))

\* every handler has returned, so every broadcast has been sent
Quiet == \A h \in DOMAIN handled : handled[h].done

\* the handlers whose $set the store has applied and whose patch names field k
PatchersOf(k) == {h \in Writers : k \in DOMAIN handled[h].data.patch}

\* shape sh carries value v in field k
FieldIs(sh, k, v) == Has(sh, k) /\ sh[k] = v

(* C13 *)

\* handlers h1 and h2 patched shape s1 concurrently: h2's event was received after
\* h1's and before h1 had returned, both writes were applied and both have returned
ConcurrentPatches(h1, h2) ==
    /\ h1 < h2
    /\ {h1, h2} \subseteq Writers
    /\ handled[h1].done /\ handled[h2].done
    /\ handled[h1].conn # handled[h2].conn
    /\ h1 \notin handled[h2].prior

\* C13: after two concurrent patches of the same field of s1, with nothing else patching
\* it, the stored field and the field in every client's copy carry the value of the patch
\* the server received second.
C13_SecondReceivedWins ==
    \A h1, h2 \in DOMAIN handled : \A k \in {"x", "color"} :
        (Quiet /\ ConcurrentPatches(h1, h2) /\ PatchersOf(k) = {h1, h2})
        => /\ FieldIs(db["R1"].shapes[1], k, handled[h2].data.patch[k])
           /\ \A c \in members["R1"] :
                FieldIs(LocalShapes(c)[1], k, handled[h2].data.patch[k])

(* C14 *)

\* every patch received was written: no handler threw or missed the shape
AllWritten == \A h \in DOMAIN handled : h \in Writers

\* C14: once the handlers of all patches have written and returned, a field of s1 that
\* exactly one patch names carries that patch's value in the store and in the copy of
\* every client of the room, whatever other fields other patches wrote and however the
\* handlers interleaved; a field no patch names keeps its value.
C14_DisjointFieldsConverge ==
    (Quiet /\ AllWritten) =>
        \A k \in {"x", "color"} :
            /\ \A h \in PatchersOf(k) :
                    PatchersOf(k) = {h} =>
                        /\ FieldIs(db["R1"].shapes[1], k, handled[h].data.patch[k])
                        /\ \A c \in members["R1"] :
                            FieldIs(LocalShapes(c)[1], k, handled[h].data.patch[k])
            /\ PatchersOf(k) = {} =>
                    /\ FieldIs(db["R1"].shapes[1], k, Rect("s1")[k])
                    /\ \A c \in members["R1"] : FieldIs(LocalShapes(c)[1], k, Rect("s1")[k])

\* c1 and c2 have patched different fields of s1 concurrently and both broadcasts are out
C14_ResizedAndRecolored ==
    /\ Quiet
    /\ ConcurrentPatches(1, 2)
    /\ DOMAIN handled[1].data.patch \cap DOMAIN handled[2].data.patch = {}
    /\ Len(inbox["c1"]) = 2 /\ Len(inbox["c2"]) = 2

(* C15 *)

\* the rooms connection c is a member of
RoomsOf(c) == {r \in RoomIds : c \in members[r]}

\* C15: in every state, through any sequence and overlap of join-room events, a connection
\* is a member of no room while it has joined none, and afterwards of exactly the room
\* it joined last.
C15_OneRoom ==
    \A c \in Conns :
        /\ Cardinality(RoomsOf(c)) <= 1
        /\ RoomsOf(c) = IF currentRoom[c] = NoRoom THEN {} ELSE {currentRoom[c]}

\* c1, a member of R1, has sent join-room for R2 and, while that handler had not
\* returned, join-room for R2 again or for R1
C15_SwitchedRooms ==
    /\ nEvents = 2
    /\ \A h \in {1, 2} : handled[h].ev = "join-room" /\ handled[h].conn = "c1"
    /\ handled[1].rid = "R2"
    /\ handled[2].rid \in RoomIds
    /\ 1 \notin handled[2].prior

----------------------------------------------------------------------------
(* The whiteboard client: its own commands, their history, and the drawing canvas *)

\* the steps one whiteboard takes
MaxSteps == 4

\* the room the whiteboard is open on
MyRoom == "R1"

\* ids made by crypto.randomUUID() and Date.now()-Math.random(): the n-th is new
FreshIds == <<"n1", "n2", "n3", "n4", "n5", "n6", "n7", "n8">>
FreshId == FreshIds[Len(steps) + 1]

\* applyLocalUpdate: { ...s, ...patch } on the shapes with the id
ApplyLocalUpdate(p, id, patch) ==
    [i \in 1..Len(p) |-> IF Has(p[i], "_id") /\ p[i]._id = id THEN Merge(p[i], patch) ELSE p[i]]

\* applyLocalDelete: the shapes with the id are filtered out
ApplyLocalDelete(p, id) == SelectSeq(p, LAMBDA x : ~(Has(x, "_id") /\ x._id = id))

\* applyLocalAdd: the shape goes to the end unless its id is there
ApplyLocalAdd(p, shape) == IF SomeId(p, shape._id) THEN p ELSE Append(p, shape)

\* one socket.emit of the whiteboard
Out(ev, data) == [ev |-> ev, data |-> data]

\* what a step leaves: the shapes, and what it sent
Effect(p, out) == [shapes |-> p, out |-> out]

PerformAdd(p, shape) ==
    Effect(ApplyLocalAdd(p, shape), <<Out("shape:add", [roomId |-> MyRoom, shape |-> shape])>>)

PerformDelete(p, id) ==
    Effect(ApplyLocalDelete(p, id), <<Out("shape:delete", [roomId |-> MyRoom, id |-> id])>>)

PerformClear(p) == Effect(<<>>, <<Out("clear-canvas", [roomId |-> MyRoom])>>)

\* the undo of a clear: setShapes(before) and one shape:add for each shape of before
RestoreAll(before) ==
    Effect(before,
           [i \in 1..Len(before) |-> Out("shape:add", [roomId |-> MyRoom, shape |-> before[i]])])

\* the do and the undo of a move or resize: the patch applied locally and sent
PerformUpdate(p, id, patch) ==
    Effect(ApplyLocalUpdate(p, id, patch),
           <<Out("shape:update", [roomId |-> MyRoom, id |-> id, patch |-> patch])>>)

\* the commands pushCmd is given: each is its do and undo closures, by what they captured
AddCmd(shape) == [kind |-> "add", shape |-> shape]
DeleteCmd(snap) == [kind |-> "delete", snap |-> snap]
ClearCmd(before) == [kind |-> "clear", before |-> before]
UpdateCmd(id, before, after) == [kind |-> "update", id |-> id, before |-> before, after |-> after]

\* cmd.do()
CmdDo(p, cmd) ==
    CASE cmd.kind = "add" -> PerformAdd(p, cmd.shape)
      [] cmd.kind = "delete" -> PerformDelete(p, cmd.snap._id)
      [] cmd.kind = "clear" -> PerformClear(p)
      [] cmd.kind = "update" -> PerformUpdate(p, cmd.id, cmd.after)

\* cmd.undo()
CmdUndo(p, cmd) ==
    CASE cmd.kind = "add" -> PerformDelete(p, cmd.shape._id)
      [] cmd.kind = "delete" -> PerformAdd(p, cmd.snap)
      [] cmd.kind = "clear" -> RestoreAll(cmd.before)
      [] cmd.kind = "update" -> PerformUpdate(p, cmd.id, cmd.before)

\* the two stacks
Stacks(u, r) == [undo |-> u, redo |-> r]

\* a pushCmd that keeps the redo stack
PushCmdKeepRedo(u, r, cmd) == Stacks(Append(u, cmd), r)

\* pushCmd: undoRef.current.push(cmd); redoRef.current = []
PushCmd(u, r, cmd) == Stacks(Append(u, cmd), <<>>)

\* a stack without its top
Pop(stack) == SubSeq(stack, 1, Len(stack) - 1)

\* the top of a stack
Top(stack) == stack[Len(stack)]

\* a move of the popped command that loses it
MoveTopLost(from, to) == <<Pop(from), to>>

\* cmd = from.pop(); to.push(cmd)
MoveTop(from, to) == <<Pop(from), Append(to, Top(from))>>

\* one step of the whiteboard: it leaves the shapes and the sent events of eff, and stacks
ClientStep(step, eff, stacks) ==
    /\ Len(steps) < MaxSteps
    /\ steps' = Append(steps, step)
    /\ clientShapes' = eff.shapes
    /\ emitted' = emitted \o eff.out
    /\ undoRef' = stacks.undo
    /\ redoRef' = stacks.redo
    /\ UNCHANGED <<server_vars, shapes0>>

\* a step outside the move and resize handlers
ClientDoes(step, eff, stacks) ==
    /\ ClientStep(step, eff, stacks)
    /\ UNCHANGED dragRef

canvas_vars == <<strokeRef, localStrokesRef, redoStackRef>>

\* the shape with the id in p (shapesRef.current.find), or Null
FindShape(p, id) ==
    IF SomeId(p, id) THEN p[CHOOSE i \in 1..Len(p) :
                               /\ Has(p[i], "_id") /\ p[i]._id = id
                               /\ \A j \in 1..(i - 1) : ~(Has(p[j], "_id") /\ p[j]._id = id)]
    ELSE Null

\* socket.emit("shape:add", {roomId, shape}) through the wrapper
EmitShapeAdd(shape) ==
    /\ ClientDoes([kind |-> "cmd", cmd |-> AddCmd(shape)],
                  PerformAdd(clientShapes, shape),
                  PushCmd(undoRef, redoRef, AddCmd(shape)))
    /\ UNCHANGED canvas_vars

\* socket.emit("shape:delete", {roomId, id}) through the wrapper
EmitShapeDelete(id) ==
    /\ LET snap == FindShape(clientShapes, id)
       IN IF ~IsNull(snap)
          THEN ClientDoes([kind |-> "cmd", cmd |-> DeleteCmd(snap)],
                          PerformDelete(clientShapes, snap._id),
                          PushCmd(undoRef, redoRef, DeleteCmd(snap)))
          ELSE ClientDoes([kind |-> "emit", ev |-> "shape:delete"],
                          Effect(clientShapes,
                                 <<Out("shape:delete", [roomId |-> MyRoom, id |-> id])>>),
                          Stacks(undoRef, redoRef))
    /\ UNCHANGED canvas_vars

\* socket.emit("clear-canvas", {roomId}) through the wrapper
EmitClearCanvas ==
    /\ ClientDoes([kind |-> "cmd", cmd |-> ClearCmd(clientShapes)],
                  PerformClear(clientShapes),
                  PushCmd(undoRef, redoRef, ClearCmd(clientShapes)))
    /\ UNCHANGED canvas_vars

\* endMoveOrResize in mode "move", of one selected shape dragged by (dx, dy)
EndMove(id, dx, dy) ==
    /\ SomeId(clientShapes, id)
    /\ dx # 0 \/ dy # 0
    /\ LET o == FindShape(clientShapes, id)
           before == [x |-> o.x, y |-> o.y]
           after == [x |-> o.x + dx, y |-> o.y + dy]
       IN /\ Has(o, "x") /\ Has(o, "y")
          /\ ClientDoes([kind |-> "cmd", cmd |-> UpdateCmd(id, before, after)],
                        PerformUpdate(clientShapes, id, after),
                        PushCmd(undoRef, redoRef, UpdateCmd(id, before, after)))
    /\ UNCHANGED canvas_vars

\* endMoveOrResize in mode "resize", of a shape stretched to width w and height h
EndResize(id, w, h) ==
    /\ SomeId(clientShapes, id)
    /\ LET o == FindShape(clientShapes, id)
           before == [x |-> o.x, y |-> o.y, w |-> o.w, h |-> o.h]
           after == [x |-> o.x, y |-> o.y, w |-> w, h |-> h]
       IN /\ Has(o, "x") /\ Has(o, "y") /\ Has(o, "w") /\ Has(o, "h")
          /\ ClientDoes([kind |-> "cmd", cmd |-> UpdateCmd(id, before, after)],
                        PerformUpdate(clientShapes, id, after),
                        PushCmd(undoRef, redoRef, UpdateCmd(id, before, after)))
    /\ UNCHANGED canvas_vars

\* an undo whose actions send through the recording wrapper: the re-sent add, delete or
\* clear is pushed as a command of its own, which empties the redo stack
UndoThroughWrapper ==
    /\ undoRef # <<>>
    /\ LET cmd == Top(undoRef)
           rec == IF cmd.kind = "update" THEN Stacks(Pop(undoRef), redoRef)
                  ELSE PushCmd(Pop(undoRef), redoRef, cmd)
       IN ClientDoes([kind |-> "undo"], CmdUndo(clientShapes, cmd),
                     Stacks(rec.undo, Append(rec.redo, cmd)))
    /\ UNCHANGED canvas_vars

\* undo()
Undo ==
    /\ IF undoRef = <<>>
       THEN ClientDoes([kind |-> "undo"], Effect(clientShapes, <<>>), Stacks(undoRef, redoRef))
       ELSE ClientDoes([kind |-> "undo"],
                       CmdUndo(clientShapes, Top(undoRef)),
                       Stacks(MoveTop(undoRef, redoRef)[1], MoveTop(undoRef, redoRef)[2]))
    /\ UNCHANGED canvas_vars

\* redo()
Redo ==
    /\ IF redoRef = <<>>
       THEN ClientDoes([kind |-> "redo"], Effect(clientShapes, <<>>), Stacks(undoRef, redoRef))
       ELSE ClientDoes([kind |-> "redo"],
                       CmdDo(clientShapes, Top(redoRef)),
                       Stacks(MoveTop(redoRef, undoRef)[2], MoveTop(redoRef, undoRef)[1]))
    /\ UNCHANGED canvas_vars

\* the handlers of shapes:init, shape:added, shape:updated, shape:deleted, drawing:replay
\* and clear-canvas, for an event m of the server
RemoteShapeEvent(m) ==
    /\ ClientDoes([kind |-> "remote", msg |-> m],
                  Effect(ClientApply(clientShapes, m), <<>>),
                  Stacks(undoRef, redoRef))
    /\ UNCHANGED canvas_vars

\* one step of the drawing canvas that leaves the whiteboard's shapes and commands alone
CanvasDoes(step, out) ==
    ClientDoes(step, Effect(clientShapes, out), Stacks(undoRef, redoRef))

\* beginStroke: strokeRef.current of a gesture begun at (x, y); its mask, null here, is left out
BeginStroke(x, y) == Stroke(FreshId, <<Point(x, y)>>)

\* drawSegment: the point is pushed onto the stroke being drawn, if there is one
DrawSegment(cur, x, y) ==
    IF IsNull(cur) THEN cur ELSE [cur EXCEPT !.points = Append(@, Point(x, y))]

\* finishStroke: the stroke being drawn, if any, goes onto localStrokesRef and the
\* canvas's redo stack is emptied
FinishStroke ==
    /\ strokeRef' = Null
    /\ IF IsNull(strokeRef)
       THEN UNCHANGED <<localStrokesRef, redoStackRef>>
       ELSE /\ localStrokesRef' = Append(localStrokesRef, strokeRef)
            /\ redoStackRef' = <<>>

\* what draw-start carries
StartOf(x, y) == [x0 |-> x, y0 |-> y, color |-> "#111", width |-> 2]

\* what draw-move carries
MoveOf(x, y, x1, y1) == [x0 |-> x, y0 |-> y, x1 |-> x1, y1 |-> y1, color |-> "#111", width |-> 2]

\* onMouseDown with the pen
MouseDown(x, y) ==
    /\ CanvasDoes([kind |-> "draw"],
                  <<Out("draw-start", [roomId |-> MyRoom, stroke |-> StartOf(x, y)])>>)
    /\ strokeRef' = BeginStroke(x, y)
    /\ UNCHANGED <<localStrokesRef, redoStackRef>>

\* onMouseMove while drawing
MouseMove(x, y) ==
    /\ ~IsNull(strokeRef)
    /\ CanvasDoes([kind |-> "draw"],
                  <<Out("draw-move",
                        [roomId |-> MyRoom,
                         stroke |-> MoveOf(Top(strokeRef.points).x, Top(strokeRef.points).y,
                                           x, y)])>>)
    /\ strokeRef' = DrawSegment(strokeRef, x, y)
    /\ UNCHANGED <<localStrokesRef, redoStackRef>>

\* onMouseUp while drawing: finishStroke, draw-end, and shape:add through the wrapper
MouseUp ==
    /\ ~IsNull(strokeRef)
    /\ FinishStroke
    /\ LET add == PerformAdd(clientShapes, strokeRef)
       IN ClientDoes([kind |-> "cmd", cmd |-> AddCmd(strokeRef)],
                     Effect(add.shapes,
                            <<Out("draw-end", [roomId |-> MyRoom, stroke |-> strokeRef])>>
                                \o add.out),
                     PushCmd(undoRef, redoRef, AddCmd(strokeRef)))

\* remoteStart: the handler of another participant's draw-start
RemoteStart(data) ==
    /\ CanvasDoes([kind |-> "remote", msg |-> [ev |-> "draw-start", data |-> data]], <<>>)
    /\ IF Has(data, "stroke") /\ Has(data.stroke, "x0") /\ Has(data.stroke, "y0")
       THEN strokeRef' = BeginStroke(data.stroke.x0, data.stroke.y0)
       ELSE UNCHANGED strokeRef
    /\ UNCHANGED <<localStrokesRef, redoStackRef>>

\* remoteMove: the handler of another participant's draw-move
RemoteMove(data) ==
    /\ CanvasDoes([kind |-> "remote", msg |-> [ev |-> "draw-move", data |-> data]], <<>>)
    /\ IF Has(data, "stroke") /\ {"x0", "y0", "x1", "y1"} \subseteq DOMAIN data.stroke
       THEN strokeRef' = DrawSegment(strokeRef, data.stroke.x1, data.stroke.y1)
       ELSE UNCHANGED strokeRef
    /\ UNCHANGED <<localStrokesRef, redoStackRef>>

\* remoteEnd: the handler of another participant's draw-end
RemoteEnd(data) ==
    /\ CanvasDoes([kind |-> "remote", msg |-> [ev |-> "draw-end", data |-> data]], <<>>)
    /\ FinishStroke

\* undoLastStroke of the canvas
UndoLastStroke ==
    /\ CanvasDoes([kind |-> "strokeUndo"], <<>>)
    /\ IF localStrokesRef = <<>>
       THEN UNCHANGED <<localStrokesRef, redoStackRef>>
       ELSE /\ localStrokesRef' = Pop(localStrokesRef)
            /\ redoStackRef' = Append(redoStackRef, Top(localStrokesRef))
    /\ UNCHANGED strokeRef

\* redoLastStroke of the canvas
RedoLastStroke ==
    /\ CanvasDoes([kind |-> "strokeRedo"], <<>>)
    /\ IF redoStackRef = <<>>
       THEN UNCHANGED <<localStrokesRef, redoStackRef>>
       ELSE /\ redoStackRef' = Pop(redoStackRef)
            /\ localStrokesRef' = Append(localStrokesRef, Top(redoStackRef))
    /\ UNCHANGED strokeRef

\* the events of other participants the server sends to this whiteboard
RemoteEvents ==
    {[ev |-> "shape:added", data |-> Rect("s1")],
     [ev |-> "shape:added", data |-> Rect("s3")],
     [ev |-> "shape:updated", data |-> [id |-> "s1", patch |-> [x |-> 5]]],
     [ev |-> "shape:deleted", data |-> [id |-> "s1"]],
     [ev |-> "drawing:replay", data |-> [roomId |-> MyRoom, strokes |-> <<Stroke1>>]],
     [ev |-> "clear-canvas", data |-> [roomId |-> MyRoom]]}

\* the whiteboard has joined R1 and taken its shapes:init
InitClient ==
    /\ currentRoom = [c \in Conns |-> IF c = "c3" THEN NoRoom ELSE MyRoom]
    /\ members = [r \in RoomIds |-> IF r = MyRoom THEN {"c1", "c2"} ELSE {}]
    /\ db \in {[r \in RoomIds |-> IF r = MyRoom THEN d ELSE NoDoc] : d \in {EmptyDoc, DocRects}}
    /\ rooms = [r \in RoomIds |-> IF r = MyRoom THEN [NoRegistry EXCEPT !.exists = TRUE]
                                  ELSE NoRegistry]
    /\ inflight = <<>>
    /\ inbox = [c \in Conns |-> <<>>]
    /\ nEvents = 0
    /\ nUuid = 0
    /\ handled = <<>>
    /\ shapes0 = InitShapes(db[MyRoom].shapes)
    /\ clientShapes = shapes0
    /\ undoRef = <<>>
    /\ redoRef = <<>>
    /\ strokeRef = Null
    /\ localStrokesRef = <<>>
    /\ redoStackRef = <<>>
    /\ emitted = <<>>
    /\ steps = <<>>
    /\ dragRef = Null

NextClient ==
    \/ EmitShapeAdd(Rect(FreshId))
    \/ \E id \in {"s1", "s2"} : EmitShapeDelete(id)
    \/ EmitClearCanvas
    \/ EndMove("s1", 3, 0)
    \/ EndResize("s2", 20, 10)
    \/ Undo
    \/ Redo
    \/ \E m \in RemoteEvents : RemoteShapeEvent(m)
    \/ \E i \in 1..Len(emitted) :
          /\ emitted[i].ev = "shape:add"
          /\ RemoteShapeEvent([ev |-> "shape:added", data |-> emitted[i].data.shape])
    \/ MouseDown(1, 1)
    \/ MouseMove(2, 2)
    \/ MouseUp
    \/ RemoteStart([roomId |-> MyRoom, stroke |-> StartOf(7, 7)])
    \/ RemoteMove([roomId |-> MyRoom, stroke |-> MoveOf(7, 7, 8, 8)])
    \/ RemoteEnd([roomId |-> MyRoom])
    \/ UndoLastStroke
    \/ RedoLastStroke

SpecClient == InitClient /\ [][NextClient]_vars

----------------------------------------------------------------------------
(* C16 *)

\* the whiteboard has run n commands and then undo() n times, and nothing else
DoneThenUndone(n) ==
    /\ n > 0
    /\ Len(steps) = 2 * n
    /\ \A i \in 1..n : steps[i].kind = "cmd"
    /\ \A i \in (n + 1)..(2 * n) : steps[i].kind = "undo"

\* C16: after any commands C1..Cn (add, delete, move, resize, clear) followed by the undo
\* of all of them in reverse order, the whiteboard's shapes are the shapes before C1: the
\* same shapes with the same fields in the same order.
C16_UndoAllRestores ==
    \A n \in 1..MaxSteps : DoneThenUndone(n) => clientShapes = shapes0

(* C17 *)

\* the shape events the server sends for a mutation
ShapeEvents == {"shape:added", "shape:updated", "shape:deleted"}

\* this step is the handler of a shape event of the server
ShapeEventStep ==
    /\ Len(steps') = Len(steps) + 1
    /\ Top(steps').kind = "remote"
    /\ Top(steps').msg.ev \in ShapeEvents

\* this step applies the shape event the step before it applied
RepeatedEvent ==
    /\ ShapeEventStep
    /\ steps # <<>>
    /\ Top(steps).kind = "remote"
    /\ Top(steps).msg = Top(steps').msg

\* this step applies a shape:added whose id the whiteboard holds
AddedOfHeld ==
    /\ ShapeEventStep
    /\ Top(steps').msg.ev = "shape:added"
    /\ \E i \in 1..Len(clientShapes) : clientShapes[i]._id = Top(steps').msg.data._id

PushStep ==
    /\ Len(steps') = Len(steps) + 1
    /\ Top(steps').kind = "cmd"

\* C18: in the state right after pushCmd the redo stack is empty and the undo stack is
\* the undo stack of before with the new command on top.
C18_PushClearsRedo ==
    [][PushStep =>
          /\ redoRef' = <<>>
          /\ Len(undoRef') = Len(undoRef) + 1
          /\ SubSeq(undoRef', 1, Len(undoRef)) = undoRef
          /\ undoRef'[Len(undoRef')] = steps'[Len(steps')].cmd]_vars

\* a command was pushed while the redo stack held an undone command
C18_PushedAfterUndo ==
    /\ Len(steps) = 3
    /\ steps[1].kind = "cmd"
    /\ steps[2].kind = "undo"
    /\ steps[3].kind = "cmd"
    /\ redoRef = <<>>
    /\ undoRef = <<steps[3].cmd>>

(* C19 *)

\* this step called undo()
UndoStep ==
    /\ Len(steps') = Len(steps) + 1
    /\ steps'[Len(steps')].kind = "undo"

\* this step called redo()
RedoStep ==
    /\ Len(steps') = Len(steps) + 1
    /\ steps'[Len(steps')].kind = "redo"

\* stack is the stack before without its last element
Popped(before, stack) ==
    /\ Len(stack) = Len(before) - 1
    /\ stack = SubSeq(before, 1, Len(before) - 1)

\* stack is the stack before with cmd on top
Pushed(before, stack, cmd) ==
    /\ Len(stack) = Len(before) + 1
    /\ SubSeq(stack, 1, Len(before)) = before
    /\ stack[Len(stack)] = cmd

\* C19: undo() on a non-empty undo stack removes the top command, leaves the shapes its
\* undo action gives and puts it on top of the redo stack; redo() on a non-empty redo
\* stack removes the top command, leaves the shapes its do action gives and puts it on
\* top of the undo stack; on an empty stack each changes neither stack nor the shapes.
C19_UndoRedoSteps ==
    [][/\ UndoStep =>
            IF undoRef = <<>>
            THEN UNCHANGED <<undoRef, redoRef, clientShapes>>
            ELSE /\ Popped(undoRef, undoRef')
                 /\ Pushed(redoRef, redoRef', undoRef[Len(undoRef)])
                 /\ clientShapes' = CmdUndo(clientShapes, undoRef[Len(undoRef)]).shapes
       /\ RedoStep =>
            IF redoRef = <<>>
            THEN UNCHANGED <<undoRef, redoRef, clientShapes>>
            ELSE /\ Popped(redoRef, redoRef')
                 /\ Pushed(undoRef, undoRef', redoRef[Len(redoRef)])
                 /\ clientShapes' = CmdDo(clientShapes, redoRef[Len(redoRef)]).shapes]_vars

\* the whiteboard ran a command, undid it and redid it, and then undid it again or called
\* redo() with nothing left to redo
C19_UndoneAndRedone ==
    /\ Len(steps) = 4
    /\ steps[1].kind = "cmd"
    /\ steps[2].kind = "undo"
    /\ steps[3].kind = "redo"
    /\ steps[4].kind \in {"undo", "redo"}
    /\ Len(undoRef) + Len(redoRef) = 1

(* C20 *)

\* this step is the handler of an event of another participant
RemoteStep ==
    /\ Len(steps') = Len(steps) + 1
    /\ steps'[Len(steps')].kind = "remote"

\* C20: the handler of an event of another participant (a shape event, draw-start,
\* draw-move, draw-end, clear-canvas) changes none of the whiteboard's undo and redo
\* stacks, the canvas's stroke stacks included.
C20_StacksPerClient ==
    [][RemoteStep => UNCHANGED <<undoRef, redoRef, localStrokesRef, redoStackRef>>]_vars

----------------------------------------------------------------------------
(* The whiteboard client: move and resize gestures, from pointer-down to pointer-up *)

\* the ids of a selection that are shapes of p with a position
Movable(p, ids) == \A i \in 1..Len(ids) : SomeId(p, ids[i]) /\ Has(FindShape(p, ids[i]), "x")

\* originals: the position of each shape of the selection when the gesture starts
Originals(p, ids) ==
    [id \in {ids[i] : i \in 1..Len(ids)} |-> [x |-> FindShape(p, id).x, y |-> FindShape(p, id).y]]

\* startMovePointer: the gesture of moving the selected shapes ids starts
StartMovePointer(ids) ==
    /\ ids # <<>>
    /\ Movable(clientShapes, ids)
    /\ ClientStep([kind |-> "pointer-down"], Effect(clientShapes, <<>>), Stacks(undoRef, redoRef))
    /\ dragRef' = [mode |-> "move", ids |-> ids, originals |-> Originals(clientShapes, ids),
                   last |-> [dx |-> 0, dy |-> 0], lastSync |-> 0]
    /\ UNCHANGED canvas_vars

\* the shapes of the selection at (dx, dy) from where they were when the gesture started
MovedBy(p, d, dx, dy) ==
    [i \in 1..Len(p) |->
        IF Has(p[i], "_id") /\ p[i]._id \in DOMAIN d.originals
        THEN Merge(p[i], [x |-> d.originals[p[i]._id].x + dx, y |-> d.originals[p[i]._id].y + dy])
        ELSE p[i]]

\* the shape:update of each shape of the selection that a synchronizing frame sends
MoveSync(d, dx, dy) ==
    [i \in 1..Len(d.ids) |->
        Out("shape:update",
            [roomId |-> MyRoom, id |-> d.ids[i],
             patch |-> [x |-> d.originals[d.ids[i]].x + dx, y |-> d.originals[d.ids[i]].y + dy]])]

\* onPointerMove: one frame of a move; it sends the positions if the last frame that did
\* is more than 120 ms back (sync), and always on the first frame
OnPointerMove(dx, dy, sync) ==
    /\ ~IsNull(dragRef)
    /\ dragRef.mode = "move"
    /\ sync \/ dragRef.lastSync # 0
    /\ ClientStep([kind |-> "pointer-move"],
                  Effect(MovedBy(clientShapes, dragRef, dx, dy),
                         IF sync THEN MoveSync(dragRef, dx, dy) ELSE <<>>),
                  Stacks(undoRef, redoRef))
    /\ dragRef' = [dragRef EXCEPT !.last = [dx |-> dx, dy |-> dy],
                                  !.lastSync = IF sync THEN 1 ELSE @]
    /\ UNCHANGED canvas_vars

\* startResize: the gesture of resizing shape id by its south-east corner starts
StartResize(id) ==
    /\ SomeId(clientShapes, id)
    /\ LET o == FindShape(clientShapes, id)
       IN /\ Has(o, "x") /\ Has(o, "w")
          /\ dragRef' = [mode |-> "resize", id |-> id, corner |-> "se",
                         orig |-> [x |-> o.x, y |-> o.y, w |-> o.w, h |-> o.h],
                         lastSync |-> 0]
    /\ ClientStep([kind |-> "pointer-down"], Effect(clientShapes, <<>>), Stacks(undoRef, redoRef))
    /\ UNCHANGED canvas_vars

Max10(v) == IF v < 10 THEN 10 ELSE v

\* the box of the resized shape with the corner at (dx, dy) from where the gesture started
ResizedBox(d, dx, dy) ==
    [x |-> d.orig.x, y |-> d.orig.y, w |-> Max10(d.orig.w + dx), h |-> Max10(d.orig.h + dy)]

\* onResizeMove: one frame of a resize; it sends the box, if the shape is there, under
\* the same throttle with 150 ms
OnResizeMove(dx, dy, sync) ==
    /\ ~IsNull(dragRef)
    /\ dragRef.mode = "resize"
    /\ sync \/ dragRef.lastSync # 0
    /\ LET found == sync /\ SomeId(clientShapes, dragRef.id)
       IN /\ ClientStep([kind |-> "pointer-move"],
                        Effect(ApplyLocalUpdate(clientShapes, dragRef.id,
                                                ResizedBox(dragRef, dx, dy)),
                               IF found
                               THEN <<Out("shape:update",
                                          [roomId |-> MyRoom, id |-> dragRef.id,
                                           patch |-> ResizedBox(dragRef, dx, dy)])>>
                               ELSE <<>>),
                        Stacks(undoRef, redoRef))
          /\ dragRef' = [dragRef EXCEPT !.lastSync = IF found THEN 1 ELSE @]
    /\ UNCHANGED canvas_vars

\* the command endMoveOrResize pushes for shape id of a move
MoveCmd(d, id) ==
    UpdateCmd(id,
              [x |-> d.originals[id].x, y |-> d.originals[id].y],
              [x |-> d.originals[id].x + d.last.dx, y |-> d.originals[id].y + d.last.dy])

\* what one pass of d.ids.forEach leaves: shapes, sent events, and the two stacks
Commit(p, out, stacks) == [shapes |-> p, out |-> out, undo |-> stacks.undo, redo |-> stacks.redo]

RECURSIVE CommitMoves(_, _, _)
\* d.ids.forEach over the first n ids: applyLocalUpdate, emit and pushCmd for each
CommitMoves(acc, d, n) ==
    IF n = 0 THEN acc
    ELSE LET prev == CommitMoves(acc, d, n - 1)
             cmd == MoveCmd(d, d.ids[n])
             eff == PerformUpdate(prev.shapes, cmd.id, cmd.after)
         IN Commit(eff.shapes, prev.out \o eff.out, PushCmd(prev.undo, prev.redo, cmd))

\* the commands pushes of a pointer-up: the undo stack's new elements
PushedBy(acc) == SubSeq(acc.undo, Len(undoRef) + 1, Len(acc.undo))

\* endMoveOrResize: pointer-up of the gesture under way
EndMoveOrResize ==
    /\ ~IsNull(dragRef)
    /\ LET start == Commit(clientShapes, <<>>, Stacks(undoRef, redoRef))
           s == IF dragRef.mode = "resize" THEN FindShape(clientShapes, dragRef.id) ELSE Null
           after == [x |-> s.x, y |-> s.y, w |-> s.w, h |-> s.h]
           cmd == UpdateCmd(dragRef.id, dragRef.orig, after)
           eff == PerformUpdate(clientShapes, dragRef.id, after)
           acc == IF dragRef.mode = "move"
                  THEN IF dragRef.last.dx # 0 \/ dragRef.last.dy # 0
                       THEN CommitMoves(start, dragRef, Len(dragRef.ids))
                       ELSE start
                  ELSE IF ~IsNull(s)
                       THEN Commit(eff.shapes, eff.out, PushCmd(undoRef, redoRef, cmd))
                       ELSE start
       IN ClientStep([kind |-> "pointer-up", cmds |-> PushedBy(acc)],
                     Effect(acc.shapes, acc.out), Stacks(acc.undo, acc.redo))
    /\ dragRef' = Null
    /\ UNCHANGED canvas_vars

\* the selections a gesture starts with
Selections == {<<"s1">>, <<"s1", "s2">>}

NextGesture ==
    \/ \E ids \in Selections : StartMovePointer(ids)
    \/ \E dx \in {0, 3}, sync \in BOOLEAN : OnPointerMove(dx, 0, sync)
    \/ StartResize("s2")
    \/ \E sync \in BOOLEAN : OnResizeMove(5, 0, sync)
    \/ EndMoveOrResize
    \/ Undo
    \/ Redo
    \/ RemoteShapeEvent([ev |-> "shape:deleted", data |-> [id |-> "s2"]])

SpecGesture == InitClient /\ [][NextGesture]_vars

(* C21 *)

\* this step is the handler k of a gesture: pointer-down, pointer-move or pointer-up
GestureStep(k) ==
    /\ Len(steps') = Len(steps) + 1
    /\ steps'[Len(steps')].kind = k

\* the gesture under way is a resize, or a move whose last frame is off the start
Dragged ==
    /\ ~IsNull(dragRef)
    /\ dragRef.mode = "move" => (dragRef.last.dx # 0 \/ dragRef.last.dy # 0)

\* C21: from pointer-down to the last frame of a drag or resize no command is pushed, and
\* the pointer-up of a gesture that dragged makes the undo stack one command longer,
\* whatever the number of frames and of selected shapes.
C21_OneCommandPerGesture ==
    [][/\ (GestureStep("pointer-down") \/ GestureStep("pointer-move")) => undoRef' = undoRef
       /\ (GestureStep("pointer-up") /\ Dragged) => Len(undoRef') = Len(undoRef) + 1]_vars

(* C22 *)

\* this step is an emit of shape:add, shape:delete or clear-canvas by the local user
LocalMutationStep ==
    /\ Len(steps') = Len(steps) + 1
    /\ \/ steps'[Len(steps')].kind = "emit"
       \/ /\ steps'[Len(steps')].kind = "cmd"
          /\ steps'[Len(steps')].cmd.kind \in {"add", "delete", "clear"}

\* the event the local mutation of step st sends
EventOf(st) ==
    IF st.kind = "emit" THEN st.ev
    ELSE CASE st.cmd.kind = "add" -> "shape:add"
           [] st.cmd.kind = "delete" -> "shape:delete"
           [] st.cmd.kind = "clear" -> "clear-canvas"

\* how many events ev this step sent
SentNow(ev) ==
    Cardinality({i \in (Len(emitted) + 1)..Len(emitted') : emitted'[i].ev = ev})

\* the shapes after this step show the mutation of step st
AppliedNow(st) ==
    IF st.kind = "emit" THEN clientShapes' = clientShapes
    ELSE CASE st.cmd.kind = "add" ->
                  \E i \in 1..Len(clientShapes') : clientShapes'[i] = st.cmd.shape
           [] st.cmd.kind = "delete" ->
                  \A i \in 1..Len(clientShapes') : clientShapes'[i]._id # st.cmd.snap._id
           [] st.cmd.kind = "clear" -> clientShapes' = <<>>

\* C22: every shape:add, shape:delete and clear-canvas the local user emits, a shape:delete
\* of an id the whiteboard does not hold included, shows in the shapes in the same step,
\* is sent to the server once and makes the undo stack one command longer.
C22_LocalMutation ==
    [][LocalMutationStep =>
          /\ AppliedNow(steps'[Len(steps')])
          /\ SentNow(EventOf(steps'[Len(steps')])) = 1
          /\ Len(undoRef') = Len(undoRef) + 1]_vars

----------------------------------------------------------------------------
(* C23 *)

\* handler h, the last event received, is a drawing:undo with an id that wrote the log
\* back and has returned, and no handler is under way
UndoneById(h) ==
    /\ h = nEvents
    /\ inflight = <<>>
    /\ handled[h].ev = "drawing:undo"
    /\ handled[h].data # ""
    /\ handled[h].writes = 1
    /\ handled[h].done

\* C23: after a drawing:undo with an id, the room's stroke log holds no entry with that
\* id and the room's shapes hold no shape with that id.
C23_UndoRemovesShape ==
    \A h \in DOMAIN handled :
        UndoneById(h)
        => /\ EntriesWithId(handled[h].rid, handled[h].data) = {}
           /\ ShapesWithId(handled[h].rid, handled[h].data) = {}

----------------------------------------------------------------------------
(* Strokes and their undo: c1 has drawn stroke k1 in R1; c1 and c2 draw and undo *)

\* the stroke a canvas sends, and one whose sender has put its socket id in as author
StrokeOf(c, signed) == IF signed THEN With(Stroke2, "author", c) ELSE Stroke2

InitDrawn == Init /\ db["R1"] = DocDrawn

NextUndo ==
    \/ \E c \in {"c1", "c2"}, signed \in BOOLEAN :
          Budget /\ DrawEnd(c, "R1", TRUE, StrokeOf(c, signed))
    \/ \E c \in {"c1", "c2"}, id \in {"", "k1"} : Budget /\ DrawingUndo(c, "R1", id)
    \/ \E h \in DOMAIN inflight : StoreExec(h)
    \/ \E h \in DOMAIN inflight : StoreFail(h)
    \/ \E h \in DOMAIN inflight : DrawEndResume(h)
    \/ \E h \in DOMAIN inflight : DrawingUndoResume(h)

SpecUndo == InitDrawn /\ [][NextUndo]_vars

(* C24 *)

\* the ids of the strokes in the log of room r, in log order
LogIds(r) == [i \in 1..Len(db[r].drawingData) |-> db[r].drawingData[i].data._id]

\* handler h is a drawing:undo without an id, received after every earlier handler had
\* returned, that wrote the log back and has returned; it is the last event
UndoneLast(h) ==
    /\ h = nEvents
    /\ h <= 2
    /\ inflight = <<>>
    /\ handled[h].ev = "drawing:undo"
    /\ handled[h].data = ""
    /\ handled[h].prior = 1..(h - 1)
    /\ handled[h].writes = 1
    /\ handled[h].done

\* the ids in the log when handler h was received
LogBefore(h) ==
    IF h = 1 THEN <<"k1">>
    ELSE IF handled[1].ev = "draw-end" /\ handled[1].writes >= 1 THEN <<"k1", "k2">>
    ELSE IF handled[1].ev = "drawing:undo" /\ handled[1].writes >= 1 THEN <<>>
    ELSE <<"k1">>

\* the connection that drew the stroke with this id
DrawnBy(id) == IF id = "k1" THEN "c1" ELSE handled[1].conn

\* the log without the last stroke c drew, or without its last stroke if c drew none
WithoutLastOf(ids, c) ==
    LET own == {i \in 1..Len(ids) : DrawnBy(ids[i]) = c}
    IN IF own # {} THEN RemoveAt(ids, CHOOSE i \in own : \A j \in own : j <= i)
       ELSE RemoveAt(ids, Len(ids))

\* C24: a drawing:undo without an id removes one entry of the stroke log: the last stroke
\* the requester drew if the log holds one, otherwise the last stroke of the log.
C24_UndoOwnLast ==
    \A h \in DOMAIN handled :
        UndoneLast(h) => LogIds(handled[h].rid) = WithoutLastOf(LogBefore(h), handled[h].conn)

(* C25 *)

\* handler h is a drawing:undo that wrote the log back and has returned
UndoWrote(h) ==
    /\ handled[h].ev = "drawing:undo"
    /\ handled[h].writes = 1
    /\ handled[h].done

\* nothing has touched the store since handler h was received but h itself
Alone(h) ==
    /\ h = nEvents
    /\ inflight = <<>>
    /\ handled[h].prior = 1..(h - 1)

\* what handler h has sent to connection c, in order
SentTo(h, c) == SelectSeq(inbox[c], LAMBDA m : m.hid = h)

----------------------------------------------------------------------------
(* C26 *)

\* the shape id the shape:update or shape:delete of handler h names
TargetOf(h) == IF handled[h].ev = "shape:update" THEN handled[h].data.id ELSE handled[h].data

\* every event received so far is a shape:update or shape:delete of s3, a shape that
\* room R1 does not hold
OnlyMissingTargets ==
    \A h \in DOMAIN handled :
        /\ handled[h].ev \in {"shape:update", "shape:delete"}
        /\ handled[h].rid = "R1"
        /\ TargetOf(h) = "s3"

\* C26: shape:update and shape:delete events that name a shape the room does not hold
\* leave the room's document as it was and send no shape:updated and no shape:deleted
\* to anyone.
C26_MissingTargetDropped ==
    OnlyMissingTargets
    => /\ db["R1"] \in {DocRects, DocDrawn}
       /\ \A c \in Conns : \A i \in 1..Len(inbox[c]) :
             inbox[c][i].ev \notin {"shape:updated", "shape:deleted"}

----------------------------------------------------------------------------
(* Events that lack a required field *)

NextInvalid ==
    \/ \E c \in Conns : Budget /\ JoinRoom(c, "")
    \/ \E c \in Conns : Budget /\ PresenceUpdate(c, "", [isIdle |-> TRUE])
    \/ \E c \in Conns : Budget /\ PresenceUpdate(c, "R1", Null)
    \/ \E c \in Conns : Budget /\ ActivityUpdate(c, "", [drawing |-> TRUE])
    \/ \E c \in Conns : Budget /\ ActivityUpdate(c, "R1", Null)
    \/ \E c \in Conns : Budget /\ CameraUpdate(c, "", [scale |-> 2])
    \/ \E c \in Conns : Budget /\ CameraUpdate(c, "R1", Null)
    \/ \E c \in Conns : Budget /\ CursorMove(c, "", Point(3, 4))
    \/ \E c \in Conns, ev \in {"draw-start", "draw-move"} :
          Budget /\ DrawRelay(c, ev, "", [x0 |-> 1, y0 |-> 1])
    \/ \E c \in Conns : Budget /\ DrawEnd(c, "", TRUE, Stroke2)
    \/ \E c \in Conns, id \in {"", "k1"} : Budget /\ DrawingUndo(c, "", id)
    \/ \E c \in Conns : Budget /\ ClearCanvas(c, "")
    \/ \E c \in Conns, has \in BOOLEAN : Budget /\ ShapeAdd(c, "", has, Rect("s3"))
    \/ \E c \in Conns : Budget /\ ShapeUpdate(c, "", "s1", TRUE, [x |-> 5])
    \/ \E c \in Conns, id \in {"", "s1"} :
          Budget /\ ShapeUpdate(c, "R1", id, id = "", [x |-> 5])
    \/ \E c \in Conns : Budget /\ ShapeDelete(c, "", "s1")
    \/ \E c \in Conns : Budget /\ ShapeDelete(c, "R1", "")

SpecInvalid == Init /\ [][NextInvalid]_vars

(* C27 *)

\* the registry before any event
Registry0 ==
    [r \in RoomIds |-> IF r = "R1" THEN [NoRegistry EXCEPT !.exists = TRUE] ELSE NoRegistry]

\* C27: events that lack a required field (roomId on any event; id on shape:update and
\* shape:delete; patch on shape:update, presence:update, activity:update and
\* camera:update) leave the store and the registry as they were and send nothing.
C27_InvalidDropped ==
    /\ db["R1"] \in {DocRects, DocDrawn} /\ db["R2"] = NoDoc
    /\ rooms = Registry0
    /\ \A c \in Conns : inbox[c] = <<>>

----------------------------------------------------------------------------
(* The registry over a connection's life: joins, room switches, presence, activity,
   camera and cursor events, and the disconnect *)

MaxRegEvents == 3

RegBudget == nEvents < MaxRegEvents

\* the connection's socket has not closed
Connected(c) ==
    \A h \in DOMAIN handled : ~(handled[h].ev = "disconnect" /\ handled[h].conn = c)

\* map.delete(socket.id)
DeleteKey(map, c) == [k \in DOMAIN map \ {c} |-> map[k]]

\* socket.io takes a closing socket out of every room before "disconnect" fires
LeaveAll(c) == [r \in RoomIds |-> members[r] \ {c}]

\* name || "Guest", color || "#4c9ffe": an absent field is ""
OrDefault(v, d) == IF v = "" THEN d ELSE v

PresenceJoin(c, rid, name, color) ==
    /\ Sync(c, "presence:join", rid)
    /\ IF rid = ""
       THEN UNCHANGED <<rooms, inbox>>
       ELSE LET val == [name |-> OrDefault(name, "Guest"),
                        color |-> OrDefault(color, "#4c9ffe"),
                        isIdle |-> FALSE, lastActive |-> "now"]
                R == SetEntry(rid, "presence", c, val)
                b1 == Emit(inbox, IoTo(rid), NewMsg(c, "presence:state", R[rid].presence))
            IN /\ rooms' = R
               /\ inbox' = Emit(b1, IoTo(rid), NewMsg(c, "user-count", UserCount(rid)))
    /\ UNCHANGED <<conn_vars, db, inflight, nUuid>>

Disconnect(c) ==
    /\ Connected(c)
    /\ Sync(c, "disconnect", IF currentRoom[c] = NoRoom THEN "" ELSE currentRoom[c])
    /\ members' = LeaveAll(c)
    /\ IF currentRoom[c] = NoRoom
       THEN UNCHANGED <<rooms, inbox>>
       ELSE LET rid == currentRoom[c]
                R == EnsureRoom(rooms, rid)
                left == LeaveAll(c)[rid]
                b1 == IF Has(R[rid].presence, c)
                      THEN Emit(inbox, left, NewMsg(c, "presence:leave", c))
                      ELSE inbox
            IN /\ rooms' = [R EXCEPT ![rid].presence = DeleteKey(@, c),
                                     ![rid].activity = DeleteKey(@, c),
                                     ![rid].camera = DeleteKey(@, c),
                                     ![rid].cursors = DeleteKey(@, c)]
               /\ inbox' = Emit(b1, left, NewMsg(c, "user-count", Cardinality(left)))
    /\ UNCHANGED <<currentRoom, db, inflight, nUuid>>

NextRegistry ==
    \/ \E c \in Conns, rid \in RoomIds : RegBudget /\ Connected(c) /\ JoinRoom(c, rid)
    \/ \E c \in Conns, rid \in RoomIds, name \in {"", "Ann"} :
          RegBudget /\ Connected(c) /\ PresenceJoin(c, rid, name, "")
    \/ \E c \in Conns, rid \in RoomIds :
          RegBudget /\ Connected(c) /\ PresenceUpdate(c, rid, [isIdle |-> TRUE])
    \/ \E c \in Conns, rid \in RoomIds :
          RegBudget /\ Connected(c) /\ ActivityUpdate(c, rid, [drawing |-> TRUE])
    \/ \E c \in Conns, rid \in RoomIds :
          RegBudget /\ Connected(c) /\ CameraUpdate(c, rid, [scale |-> 2])
    \/ \E c \in Conns, rid \in RoomIds :
          RegBudget /\ Connected(c) /\ CursorMove(c, rid, Point(3, 4))
    \/ \E c \in Conns : RegBudget /\ Disconnect(c)
    \/ \E h \in DOMAIN inflight : StoreExec(h)
    \/ \E h \in DOMAIN inflight : StoreFail(h)
    \/ \E h \in DOMAIN inflight : JoinRoomResume(h)

SpecRegistry == InitRects /\ [][NextRegistry]_vars

(* C28 *)

RegistryMaps == {"presence", "activity", "camera", "cursors"}

\* the rooms and maps of the registry that hold an entry for c
EntriesOf(c) == {<<r, map>> \in RoomIds \X RegistryMaps : Has(rooms[r][map], c)}

\* C28: once a connection's disconnect has been processed, no presence, activity,
\* camera or cursor map of any room holds an entry for it, whatever joins, room
\* switches and registry events it sent before.
C28_DisconnectCleans ==
    \A c \in Conns : ~Connected(c) => EntriesOf(c) = {}

(* C29 *)

\* the entry of d in map `map` of room r, Null if there is none
Entry(reg, r, map, d) == IF Has(reg[r][map], d) THEN reg[r][map][d] ELSE Null

\* C29: a step creates, changes or deletes the registry entry of a connection in a
\* room only when it processes an event sent by that connection.
C29_OwnEntriesOnly ==
    [][\A d \in Conns, r \in RoomIds, map \in RegistryMaps :
          Entry(rooms', r, map, d) # Entry(rooms, r, map, d) =>
              /\ nEvents' = nEvents + 1
              /\ handled'[nEvents'].conn = d]_vars

\* a connection disconnected from a room where two others hold entries
C29_LeftBesideOthers ==
    \E c, d, e \in Conns :
        /\ c # d /\ c # e /\ d # e
        /\ ~Connected(c) /\ currentRoom[c] # NoRoom
        /\ Has(rooms[currentRoom[c]].presence, d)
        /\ Has(rooms[currentRoom[c]].cursors, e)

----------------------------------------------------------------------------
(* Finished strokes: connections join and switch rooms while strokes are sent *)

NextStroke ==
    \/ \E c \in Conns, rid \in RoomIds : Budget /\ JoinRoom(c, rid)
    \/ \E c \in Conns, has \in BOOLEAN : Budget /\ DrawEnd(c, "R1", has, Stroke2)
    \/ \E h \in DOMAIN inflight : StoreExec(h)
    \/ \E h \in DOMAIN inflight : StoreFail(h)
    \/ \E h \in DOMAIN inflight : JoinRoomResume(h)
    \/ \E h \in DOMAIN inflight : DrawEndResume(h)

SpecStroke == Init /\ [][NextStroke]_vars

(* C30 *)

\* the server receives a draw-end of connection c for room r in this step
DrawEndStep(c, r) ==
    /\ nEvents' = nEvents + 1
    /\ handled'[nEvents'].ev = "draw-end"
    /\ handled'[nEvents'].conn = c
    /\ handled'[nEvents'].rid = r

\* the handler of a draw-end returns in this step, its stroke and its shape stored
StrokeSaved(h) ==
    /\ inflight[h].ev = "draw-end"
    /\ inflight[h].stage = 2
    /\ inflight[h].res.status = "ok"
    /\ h \notin DOMAIN inflight'

\* C30: when the server receives a draw-end of connection c for room R, every connection
\* joined to R other than c is sent that draw-end, and c and the connections outside R
\* are sent nothing; when the handler has stored the stroke and its shape, every
\* connection joined to R, c included when it is joined to R, is sent shape:added with
\* the shape made from the stroke, and the connections outside R are sent nothing.
C30_DrawEndFanout ==
    [][/\ \A c \in Conns, r \in RoomIds :
            DrawEndStep(c, r) =>
                \A d \in Conns :
                    IF d \in members[r] /\ d # c
                    THEN Got(d, "draw-end", nEvents')
                    ELSE inbox'[d] = inbox[d]
       /\ \A h \in DOMAIN inflight :
            StrokeSaved(h) =>
                \A d \in Conns :
                    IF d \in members[inflight[h].rid]
                    THEN /\ Got(d, "shape:added", h)
                         /\ inbox'[d][Len(inbox'[d])].data =
                                StrokeShape(handled[h].data, handled[h].conn)
                    ELSE inbox'[d] = inbox[d]]_vars

\* a draw-end of c1 for R1 has been handled to its end: c2 holds the draw-end and then
\* the shape:added, c1 holds the shape:added and no draw-end, c3 holds nothing
C30_StrokeRelayedAndAdded ==
    \E h \in DOMAIN handled :
        /\ handled[h].ev = "draw-end" /\ handled[h].conn = "c1" /\ handled[h].done
        /\ [i \in 1..Len(inbox["c2"]) |-> inbox["c2"][i].ev] = <<"draw-end", "shape:added">>
        /\ [i \in 1..Len(inbox["c1"]) |-> inbox["c1"][i].ev] = <<"shape:added">>
        /\ inbox["c1"][1].hid = h /\ inbox["c2"][2].hid = h
        /\ inbox["c3"] = <<>>

----------------------------------------------------------------------------
(* C31 *)

Snapshots == {"shapes:init", "drawing:replay", "presence:state"}

\* the snapshots that the handler of a join-room has sent to connection c
SnapshotsOfJoin(c) ==
    {i \in 1..Len(inbox[c]) : /\ inbox[c][i].ev \in Snapshots
                              /\ handled[inbox[c][i].hid].ev = "join-room"}

\* C31: the shapes:init, drawing:replay and presence:state that a join-room produces are
\* sent to the joining connection and to no other connection.
C31_SnapshotsToJoiner ==
    \A c \in Conns : \A i \in SnapshotsOfJoin(c) : handled[inbox[c][i].hid].conn = c

\* c3 has joined R1, where c1 and c2 are: c3 holds the three snapshots of its join, and
\* c1 and c2 hold the user-count of that join and nothing else
C31_JoinedBesideOthers ==
    \E j \in JoinsDone :
        /\ handled[j].conn = "c3" /\ handled[j].rid = "R1"
        /\ {inbox["c3"][i].ev : i \in SnapshotsOfJoin("c3")} = Snapshots
        /\ \A d \in {"c1", "c2"} :
              /\ d \in members["R1"]
              /\ [i \in 1..Len(inbox[d]) |-> inbox[d][i].ev] = <<"user-count">>
              /\ inbox[d][1].hid = j

----------------------------------------------------------------------------
(* C32 *)

\* the store applies the $set of shape:update handler h in this step
UpdateWrites(h) ==
    /\ inflight[h].ev = "shape:update"
    /\ handled'[h].writes = handled[h].writes + 1

\* the elements of a shape list
Elements(shapes) == {shapes[i] : i \in 1..Len(shapes)}

\* C32: the write of a shape:update for id X changes the stored shape whose id is X and
\* no other: every other element of the room's shape list is an element the list held
\* before the write, whatever adds and deletes ran between the lookup and the write.
C32_UpdateTouchesOwnShape ==
    [][\A h \in DOMAIN inflight :
          UpdateWrites(h) =>
              \A s \in Elements(db'[inflight[h].rid].shapes) :
                  \/ Has(s, "_id") /\ s._id = handled[h].data.id
                  \/ s \in Elements(db[inflight[h].rid].shapes)]_vars

----------------------------------------------------------------------------
(* C33 *)

\* the store applies the rewrite of the log by drawing:undo handler h in this step
UndoWrites(h) ==
    /\ inflight[h].ev = "drawing:undo"
    /\ handled'[h].writes = handled[h].writes + 1

\* C33: the write of a drawing:undo takes at most one entry out of the room's stroke log
\* and leaves every other entry in place, the entries that a draw-end appended while the
\* undo was running included.
C33_UndoKeepsOtherStrokes ==
    [][\A h \in DOMAIN inflight :
          UndoWrites(h) =>
              LET log == db[inflight[h].rid].drawingData
                  after == db'[inflight[h].rid].drawingData
              IN \/ after = log
                 \/ \E i \in 1..Len(log) : after = RemoveAt(log, i)]_vars

----------------------------------------------------------------------------
(* Joining a room that is being changed: c3 joins R1 while c1 and c2 add and delete
   shapes, and replays what it is sent *)

NextJoinMutate ==
    \/ Budget /\ JoinRoom("c3", "R1")
    \/ \E c \in {"c1", "c2"} : Budget /\ ShapeAdd(c, "R1", TRUE, Rect("s3"))
    \/ \E c \in {"c1", "c2"} : Budget /\ ShapeDelete(c, "R1", "s1")
    \/ \E h \in DOMAIN inflight : StoreExec(h)
    \/ \E h \in DOMAIN inflight : StoreFail(h)
    \/ \E h \in DOMAIN inflight : JoinRoomResume(h)
    \/ \E h \in DOMAIN inflight : ShapeAddResume(h)
    \/ \E h \in DOMAIN inflight : ShapeDeleteResume(h)

SpecJoinMutate == InitRects /\ [][NextJoinMutate]_vars

(* C34 *)

\* the ids of the shapes of a list
ShapeIds(shapes) == {shapes[i]._id : i \in {j \in 1..Len(shapes) : Has(shapes[j], "_id")}}

\* the shapes of a client that starts empty, once it has handled every event sent to c
JoinerShapes(c) == ClientReplay(<<>>, inbox[c], Len(inbox[c]))

\* C34: once the join of a connection and every mutation handler have returned and the
\* joiner has handled everything it was sent, the joiner's shapes are the stored shapes
\* of the room.
C34_JoinerConsistent ==
    (inflight = <<>> /\ \E j \in JoinsDone : handled[j].conn = "c3")
        => ShapeIds(JoinerShapes("c3")) = ShapeIds(db["R1"].shapes)

----------------------------------------------------------------------------
(* Joining a room that has no document yet, the store being available throughout: a
   call fails only when the store rejects it *)

\* the store rejects the pending call of handler h
StoreRejects(h) ==
    /\ inflight[h].res.status = "pending"
    /\ OpThrows(db[inflight[h].op.rid], inflight[h].op)
    /\ StoreFail(h)

NextJoinNew ==
    \/ \E c \in Conns, rid \in RoomIds : Budget /\ JoinRoom(c, rid)
    \/ \E h \in DOMAIN inflight : StoreExec(h)
    \/ \E h \in DOMAIN inflight : StoreRejects(h)
    \/ \E h \in DOMAIN inflight : JoinRoomResume(h)

SpecJoinNew == Init /\ [][NextJoinNew]_vars

(* C35 *)

\* the join-room handlers that have returned
JoinsReturned ==
    {j \in DOMAIN handled : handled[j].ev = "join-room" /\ handled[j].done}

\* C35: after any interleaving of joins to a room that had no document, the room has its
\* document, and every join that has returned has sent its connection a shapes:init and
\* no error.
C35_ConcurrentFirstJoins ==
    \A j \in JoinsReturned :
        /\ db[handled[j].rid].exists
        /\ Len(Received(j, "shapes:init")) = 1
        /\ Len(Received(j, "error")) = 0

----------------------------------------------------------------------------
(* C36 *)

\* the user-count events that connection c has been sent
UserCounts(c) == SelectSeq(inbox[c], LAMBDA m : m.ev = "user-count")

\* every event received so far has been processed, and the store never failed
Settled == inflight = <<>> /\ \A h \in DOMAIN handled : ~handled[h].threw

\* C36: once every join-room and disconnect has been processed, the last user-count
\* that a member of a room has been sent is the number of connections joined to that
\* room.
C36_UserCountAccurate ==
    Settled =>
        \A r \in RoomIds : \A c \in members[r] :
            UserCounts(c) # <<>> =>
                UserCounts(c)[Len(UserCounts(c))].data = Cardinality(members[r])

----------------------------------------------------------------------------
(* C37 *)

\* stack is the stack before with one more command on top of it
Grown(before, stack) ==
    /\ Len(stack) = Len(before) + 1
    /\ SubSeq(stack, 1, Len(before)) = before

\* C37: undo() and redo() push no command and never empty the redo stack. undo() on a
\* non-empty undo stack sends what the command's undo action sends, leaves the undo
\* stack one shorter and the redo stack one longer; redo() on a non-empty redo stack
\* sends what the do action sends, leaves the redo stack one shorter and the undo stack
\* one longer; neither changes the canvas's stroke stacks or a gesture in progress.
C37_UndoRedoRecordNothing ==
    [][/\ (UndoStep /\ undoRef # <<>>) =>
            /\ Popped(undoRef, undoRef')
            /\ Grown(redoRef, redoRef')
            /\ emitted' = emitted \o CmdUndo(clientShapes, undoRef[Len(undoRef)]).out
       /\ (RedoStep /\ redoRef # <<>>) =>
            /\ Popped(redoRef, redoRef')
            /\ Grown(undoRef, undoRef')
            /\ emitted' = emitted \o CmdDo(clientShapes, redoRef[Len(redoRef)]).out
       /\ (UndoStep \/ RedoStep) =>
            UNCHANGED <<strokeRef, localStrokesRef, redoStackRef, dragRef>>]_vars

\* two commands were run and both undone: the second undo re-sent an event while the
\* redo stack held a command, and the redo stack holds both
C37_UndoneTwice ==
    /\ Len(steps) = 4
    /\ steps[1].kind = "cmd" /\ steps[2].kind = "cmd"
    /\ steps[3].kind = "undo" /\ steps[4].kind = "undo"
    /\ undoRef = <<>>
    /\ Len(redoRef) = 2
    /\ Len(emitted) >= 4

----------------------------------------------------------------------------
(* C38 *)

\* the places in `emitted` of the draw-start events
StartsSent == {i \in 1..Len(emitted) : emitted[i].ev = "draw-start"}

\* the place of the draw-start of the last local gesture
LastStart == CHOOSE i \in StartsSent : \A j \in StartsSent : j <= i

\* the local gesture is between its pointer-down and its pointer-up
GestureOpen ==
    /\ StartsSent # {}
    /\ \A j \in (LastStart + 1)..Len(emitted) : emitted[j].ev # "draw-end"

\* the points of the local gesture: where it began, and where each of its moves went
GesturePoints ==
    LET moves == SelectSeq(SubSeq(emitted, LastStart + 1, Len(emitted)),
                           LAMBDA e : e.ev = "draw-move")
    IN <<Point(emitted[LastStart].data.stroke.x0, emitted[LastStart].data.stroke.y0)>>
           \o [i \in 1..Len(moves) |-> Point(moves[i].data.stroke.x1, moves[i].data.stroke.y1)]

\* C38: while a local gesture is between pointer-down and pointer-up, the stroke in
\* progress is the local one and its points are those of the local gesture, whatever
\* draw-start, draw-move and draw-end events of other participants arrive meanwhile.
C38_RemoteLeavesLocalStroke ==
    GestureOpen => (~IsNull(strokeRef) /\ strokeRef.points = GesturePoints)

----------------------------------------------------------------------------
(* C39 *)

\* the shapes of a client that has joined a room holding doc: its shapes:init, then the
\* replay of the stroke log
JoinedShapes(doc) ==
    Replayed2Paths(InitShapes(doc.shapes),
                   [roomId |-> "R1", strokes |-> StrokesOf(doc.drawingData)])

\* the ids of the path shapes of a list
PathIds(p) == {p[i]._id : i \in {j \in 1..Len(p) : p[j].type = "path"}}

\* the paths of the client of connection c, which joined R1 when it held DocDrawn, once it
\* has handled every event sent to it
ClientPaths(c) == PathIds(ClientReplay(JoinedShapes(DocDrawn), inbox[c], Len(inbox[c])))

\* the ids of the strokes of the stored log of room r
StoredStrokeIds(r) ==
    {db[r].drawingData[i].data._id :
        i \in {j \in 1..Len(db[r].drawingData) : db[r].drawingData[j].type = "stroke"}}

\* C39: once a drawing:undo that removed a stroke has returned, with nothing else
\* touching the log meanwhile, and its replay has been handled, the path shapes of every
\* client in the room are the strokes left in the stored log.
C39_UndoReachesClients ==
    \A h \in DOMAIN handled :
        (UndoWrote(h) /\ Alone(h)) =>
            \A c \in members["R1"] : ClientPaths(c) = StoredStrokeIds("R1")

----------------------------------------------------------------------------
(* Delivery across rooms: joined and unjoined connections join, switch rooms, ask for the
   shapes of a room and send shape and activity events for R1 *)

\* shapes:request: rid = "" is a payload without a roomId, which falls back on currentRoom
ShapesRequest(c, rid) ==
    LET r == IF rid # "" THEN rid
             ELSE IF currentRoom[c] = NoRoom THEN "" ELSE currentRoom[c]
    IN IF r = ""
       THEN /\ Sync(c, "shapes:request", "")
            /\ inbox' = Emit(inbox, {c}, NewMsg(c, "shapes:init", <<>>))
            /\ UNCHANGED <<conn_vars, db, rooms, inflight, nUuid>>
       ELSE /\ CanStart
            /\ Start(c, "shapes:request", r, <<>>, OpFindOne(r))
            /\ UNCHANGED <<conn_vars, db, rooms, inbox, nUuid>>

\* after await Room.findOne: the shapes, or an empty list when the call threw
ShapesRequestResume(h) ==
    /\ Resumable(h, "shapes:request")
    /\ LET f == inflight[h]
           shapes == IF f.res.status = "err" \/ ~f.res.doc.exists THEN <<>>
                     ELSE f.res.doc.shapes
       IN inbox' = Emit(inbox, {f.conn}, Msg("shapes:init", shapes, h))
    /\ Finish(h)
    /\ UNCHANGED <<conn_vars, db, rooms, nEvents, nUuid>>

NextIsolation ==
    \/ \E c \in Conns, rid \in RoomIds : Budget /\ JoinRoom(c, rid)
    \/ \E c \in Conns, rid \in {"", "R1"} : Budget /\ ShapesRequest(c, rid)
    \/ \E c \in Conns : Budget /\ ShapeAdd(c, "R1", TRUE, Rect("s3"))
    \/ \E c \in Conns : Budget /\ ActivityUpdate(c, "R1", [drawing |-> TRUE])
    \/ \E c \in Conns : Budget /\ CursorMove(c, "R1", Point(3, 4))
    \/ \E h \in DOMAIN inflight : StoreExec(h)
    \/ \E h \in DOMAIN inflight : StoreFail(h)
    \/ \E h \in DOMAIN inflight : JoinRoomResume(h)
    \/ \E h \in DOMAIN inflight : ShapesRequestResume(h)
    \/ \E h \in DOMAIN inflight : ShapeAddResume(h)

SpecIsolation == Init /\ [][NextIsolation]_vars

(* C40 *)

\* the places in the inbox of connection d of the events it is sent in this step
SentNowTo(d) == (Len(inbox[d]) + 1)..Len(inbox'[d])

\* the room named by the event whose handler sent the i-th event of d's inbox
RoomOfSent(d, i) == handled'[inbox'[d][i].hid].rid

\* C40: an event that the server emits while handling an event that names room R (a
\* failure notice aside) is sent only to connections that are joined to R.
C40_RoomIsolation ==
    [][\A d \in Conns : \A i \in SentNowTo(d) :
          (inbox'[d][i].ev # "error" /\ RoomOfSent(d, i) # "")
              => d \in members'[RoomOfSent(d, i)]]_vars

====
